---- MODULE Spec2Model ----
(***************************************************************************)
(* Upload / validation / storage / conversion core of the PNG and PDF      *)
(* upload backend.                                                         *)
(*                                                                         *)
(* The backend runs on a single-threaded event loop: a handler runs from   *)
(* one `await` to the next without interleaving, so every action below is  *)
(* one such run (the synchronous prefix of a service function, one stream  *)
(* listener together with the continuation it wakes, one timer callback    *)
(* together with the continuation it wakes).                               *)
(*                                                                         *)
(* A buffer is abstracted to its length, its leading bytes (`head`, the    *)
(* first HeadLen bytes) and the set of PDF markers its latin1 text         *)
(* contains (`tokens`).                                                    *)
(***************************************************************************)
EXTENDS Integers, Sequences, FiniteSets, TLC

\* ------------------------------------------------------------- bounds
MaxRequests == 2        \* upload requests that arrive in one run
MaxData == 2            \* 'data' events the request streams deliver in one run

\* ---------------------------------------------------------- constants
PDF_MAX_FILE_SIZE == 50 * 1024 * 1024
PDF_MAX_RECORDS == 100
FILE_MAX_FILE_SIZE == 10 * 1024 * 1024
FILE_MAX_RECORDS == 100

PDF_SIGNATURE == <<37, 80, 68, 70, 45>>                 \* %PDF-
PNG_SIGNATURE == <<137, 80, 78, 71, 13, 10, 26, 10>>

NullId == 0             \* uploadInProgress: string | null
MalformedId == -1       \* an identifier z.string().uuid() rejects

\* Number of leading bytes a buffer abstraction keeps.
HeadLen == 26

PdfTokens == {"xref", "trailer", "startxref", "%%EOF", "obj"}

Requests == 1..MaxRequests

Min(a, b) == IF a < b THEN a ELSE b

Take(s, n) == SubSeq(s, 1, Min(n, Len(s)))

\* ------------------------------------------------------------ buffers
EmptyBuffer == [length |-> 0, head |-> <<>>, tokens |-> {}]

PdfHead == <<37, 80, 68, 70, 45, 49, 46, 52>>           \* %PDF-1.4

\* The first 26 bytes of a PNG: the signature, the IHDR chunk's length and
\* type, then width 1, height 1, bit depth 8, colour type 6 (RGBA).
PngHead ==
    PNG_SIGNATURE \o <<0, 0, 0, 13, 73, 72, 68, 82>> \o
    <<0, 0, 0, 1>> \o <<0, 0, 0, 1>> \o <<8, 6>>

\* Buffer.concat([a, b])
BufferConcat(a, b) ==
    [length |-> a.length + b.length,
     head |-> IF Len(a.head) < a.length THEN a.head ELSE Take(a.head \o b.head, HeadLen),
     tokens |-> a.tokens \cup b.tokens]

\* Chunks a document request stream may deliver: an empty chunk, a well-formed
\* PDF of exactly the size ceiling, a PDF without xref and trailer, and a
\* chunk one byte over the ceiling.
PdfChunks ==
    { EmptyBuffer,
      [length |-> PDF_MAX_FILE_SIZE, head |-> PdfHead, tokens |-> PdfTokens],
      [length |-> 67, head |-> PdfHead, tokens |-> {"startxref", "%%EOF", "obj"}],
      [length |-> PDF_MAX_FILE_SIZE + 1, head |-> PdfHead, tokens |-> PdfTokens] }

\* Chunks an image request stream may deliver: an empty chunk, the bare
\* signature, PNGs of 24 and 67 bytes and of exactly the size ceiling, and a
\* chunk one byte over the ceiling.
PngChunks ==
    { EmptyBuffer,
      [length |-> 8, head |-> PNG_SIGNATURE, tokens |-> {}],
      [length |-> 24, head |-> Take(PngHead, 24), tokens |-> {}],
      [length |-> 67, head |-> PngHead, tokens |-> {}],
      [length |-> FILE_MAX_FILE_SIZE, head |-> PngHead, tokens |-> {}],
      [length |-> FILE_MAX_FILE_SIZE + 1, head |-> PngHead, tokens |-> {}] }

\* `s` with its i-th byte replaced by another value.
Altered(s, i) == [s EXCEPT ![i] = (@ + 1) % 256]

\* Chunks that probe isPDFFile: a well-formed PDF, PDFs that differ from the
\* magic in exactly one of its five bytes, and the proper prefixes of the magic.
SignaturePdfChunks ==
    { [length |-> 67, head |-> PdfHead, tokens |-> PdfTokens] } \cup
    { [length |-> 67, head |-> Altered(PdfHead, i), tokens |-> PdfTokens] :
        i \in 1..Len(PDF_SIGNATURE) } \cup
    { [length |-> n, head |-> Take(PDF_SIGNATURE, n), tokens |-> {}] :
        n \in 0..(Len(PDF_SIGNATURE) - 1) }

\* Chunks that probe isPNGFile, likewise.
SignaturePngChunks ==
    { [length |-> 67, head |-> PngHead, tokens |-> {}] } \cup
    { [length |-> 67, head |-> Altered(PngHead, i), tokens |-> {}] :
        i \in 1..Len(PNG_SIGNATURE) } \cup
    { [length |-> n, head |-> Take(PNG_SIGNATURE, n), tokens |-> {}] :
        n \in 0..(Len(PNG_SIGNATURE) - 1) }

\* Chunks that fail a document upload at each stage: an oversized file that is
\* not a PDF, a file with every marker but no PDF header, a PDF without
\* markers, and a well-formed PDF.
StagePdfChunks ==
    { [length |-> PDF_MAX_FILE_SIZE + 1, head |-> PngHead, tokens |-> {}],
      [length |-> 67, head |-> PngHead, tokens |-> PdfTokens],
      [length |-> 67, head |-> PdfHead, tokens |-> {}],
      [length |-> 67, head |-> PdfHead, tokens |-> PdfTokens] }

\* Chunks that fail an image upload at each stage: an oversized file that is
\* not a PNG, a PDF, a bare PNG signature, and a well-formed PNG.
StagePngChunks ==
    { [length |-> FILE_MAX_FILE_SIZE + 1, head |-> PdfHead, tokens |-> PdfTokens],
      [length |-> 67, head |-> PdfHead, tokens |-> PdfTokens],
      [length |-> 8, head |-> PNG_SIGNATURE, tokens |-> {}],
      [length |-> 67, head |-> PngHead, tokens |-> {}] }

\* processMultipartUpload's `chunks` array is kept as the number of chunks
\* pushed and their concatenation, which is all the code reads of it
\* (chunks.length and Buffer.concat(chunks)).
NoChunks == [count |-> 0, buffer |-> EmptyBuffer]

\* chunks.push(chunk)
ChunksPush(cs, chunk) == [count |-> cs.count + 1, buffer |-> BufferConcat(cs.buffer, chunk)]

\* -------------------------------------------------------------- state
VARIABLES
    fileRecords,        \* FileUploadStore.records: id -> FileUploadEntity
    records,            \* PDFUploadStore.records: id -> PDFUploadEntity
    isolatedRecords,    \* PDFUploadStore.isolatedRecords
    uploadInProgress,   \* PDFUploadStore.uploadInProgress (the gate)
    uuidCount,          \* identifiers uuidv4() has issued so far
    arrived,            \* upload requests received so far
    kind,               \* per request: "none" | "pdf" | "png"
    pc,                 \* per request: "idle" | "ingesting" | "scanning" | "done"
    stream,             \* per request stream: "unread" | "open" | "ended" | "errored" | "stalled"
    delivered,          \* 'data' events delivered so far, over all request streams
    totalSize,          \* per request: processMultipartUpload's totalSize
    chunks,             \* per request: processMultipartUpload's chunks
    uploadId,           \* per request: the id pdfUploadProcess reserved
    timers,             \* per request: pending timers of scanForVirus
    scanResult,         \* per request: what scanForVirus returned
    result,             \* per request: what the upload returned or threw
    last                \* outcome of the latest get / cancel / convert call

vars == <<fileRecords, records, isolatedRecords, uploadInProgress, uuidCount,
          arrived, kind, pc, stream, delivered, totalSize, chunks, uploadId,
          timers, scanResult, result, last>>

storeVars == <<fileRecords, records, isolatedRecords, uploadInProgress, uuidCount>>
reqVars == <<arrived, kind, pc, stream, delivered, totalSize, chunks, uploadId,
             timers, scanResult, result>>

NoResponse == [id |-> NullId]
NoResult == [code |-> "NONE", response |-> NoResponse]
NoCall == [op |-> "none", id |-> NullId, code |-> "NONE", response |-> NoResponse]

Failure(code) == [code |-> code, response |-> NoResponse]

\* ------------------------------------------------ signature validation
\* A signature check that compares only the four bytes of "%PDF".
isPDFFile_fourBytes(buffer) ==
    IF buffer.length < 4 THEN FALSE
    ELSE Take(buffer.head, 4) = Take(PDF_SIGNATURE, 4)

\* isPDFFile: length check, then the first five bytes against the PDF magic
isPDFFile(buffer) ==
    IF buffer.length < Len(PDF_SIGNATURE) THEN FALSE
    ELSE Take(buffer.head, Len(PDF_SIGNATURE)) = PDF_SIGNATURE

\* isPNGFile: length check, then the first eight bytes against the PNG magic
isPNGFile(buffer) ==
    IF buffer.length < Len(PNG_SIGNATURE) THEN FALSE
    ELSE Take(buffer.head, Len(PNG_SIGNATURE)) = PNG_SIGNATURE

\* ----------------------------------------------- structural validation
\* content.includes(needle), for the markers validatePDFStructure looks for.
\* `tokens` are the PDF keywords present in the file; includes is a substring
\* search, so the keyword startxref also satisfies a search for xref.
includes(buffer, needle) ==
    \/ needle \in buffer.tokens
    \/ needle = "xref" /\ "startxref" \in buffer.tokens

\* validatePDFStructure: ordered presence checks, first failure wins
validatePDFStructure(buffer) ==
    IF Take(buffer.head, Len(PDF_SIGNATURE)) # PDF_SIGNATURE
        THEN [valid |-> FALSE, corruption |-> "cabecalho_invalido"]
    ELSE IF ~includes(buffer, "xref")
        THEN [valid |-> FALSE, corruption |-> "xref_corrompida"]
    ELSE IF ~includes(buffer, "trailer")
        THEN [valid |-> FALSE, corruption |-> "trailer_ausente"]
    ELSE IF ~includes(buffer, "startxref")
        THEN [valid |-> FALSE, corruption |-> "estrutura_invalida"]
    ELSE IF ~includes(buffer, "%%EOF")
        THEN [valid |-> FALSE, corruption |-> "estrutura_invalida"]
    ELSE IF ~includes(buffer, "obj")
        THEN [valid |-> FALSE, corruption |-> "objeto_corrompido"]
    ELSE [valid |-> TRUE, corruption |-> "null"]

\* extractPNGDimensions: readUInt32BE(16) and readUInt32BE(20) throw a
\* RangeError unless bytes 16..23 exist.
extractPNGDimensionsThrows(buffer) == buffer.length < 24

\* extractPNGMetadata: additionally readUInt8(24) and readUInt8(25); any
\* throw inside is caught and rethrown as ServiceError METADATA_EXTRACTION_FAILED.
extractPNGMetadataThrows(buffer) == buffer.length < 26

\* buffer.readUInt8(offset), for offsets inside the buffer
readUInt8(buffer, offset) == buffer.head[offset + 1]

\* buffer.readUInt32BE(offset), for offsets inside the buffer. The value ranges
\* over 0 .. 2^32 - 1, beyond the integers of the model checker, so it is
\* kept as its four base-256 digits, most significant first.
readUInt32BE(buffer, offset) ==
    <<readUInt8(buffer, offset), readUInt8(buffer, offset + 1),
      readUInt8(buffer, offset + 2), readUInt8(buffer, offset + 3)>>

\* PNG_COLOR_TYPES.GRAYSCALE_ALPHA, PNG_COLOR_TYPES.RGBA
GRAYSCALE_ALPHA == 4
RGBA == 6

\* extractPNGMetadata on a buffer of at least 26 bytes: the object it returns
extractPNGMetadata(buffer) ==
    LET colorType == readUInt8(buffer, 25)
    IN  [width |-> readUInt32BE(buffer, 16),
         height |-> readUInt32BE(buffer, 20),
         bitDepth |-> readUInt8(buffer, 24),
         colorType |-> colorType,
         hasTransparency |-> IF colorType = GRAYSCALE_ALPHA \/ colorType = RGBA
                             THEN TRUE
                             ELSE "tRNS" \in buffer.tokens]

\* cleanupMemory on one object reference: every own key is deleted, which
\* leaves the object the reference points to with no property.
cleanupMemory(ref) == [key \in {} |-> ref[key]]

\* -------------------------------------------------------------- stores
\* A Map<string, Record> is kept as [lo, hi, map]: `map` holds the entries set
\* during the run, and lo..hi are the keys of the entries the run started with
\* (their values are given by the partition, see fileRecordsGet, recordsGet and
\* isolatedRecordsGet). Of the initial entries only the one with key `hi` is
\* ever deleted (IdInputs names no other), which keeps lo..hi an interval.
EmptyMap == [lo |-> 1, hi |-> 0, map |-> <<>>]

\* Map.keys()
MapKeys(m) == (m.lo..m.hi) \cup DOMAIN m.map

\* Map.size
MapSize(m) == (m.hi - m.lo + 1) + Cardinality(DOMAIN m.map)

\* Map.has(id)
MapHas(m, id) == (m.lo <= id /\ id <= m.hi) \/ id \in DOMAIN m.map

\* A set under a key that is not the record's id.
MapSet_otherKey(m, record) ==
    [m EXCEPT !.map = [i \in DOMAIN m.map \cup {record.id + 1} |->
                          IF i = record.id + 1 THEN record ELSE m.map[i]]]

\* Map.set(record.id, record); record.id comes from uuidv4(), so it is not in lo..hi
MapSet(m, record) ==
    [m EXCEPT !.map = [i \in DOMAIN m.map \cup {record.id} |->
                          IF i = record.id THEN record ELSE m.map[i]]]

\* A delete that removes nothing.
MapDelete_keeps(m, id) == m

\* Map.delete(id)
MapDelete(m, id) ==
    IF id \in DOMAIN m.map
    THEN [m EXCEPT !.map = [i \in DOMAIN m.map \ {id} |-> m.map[i]]]
    ELSE IF id = m.hi /\ m.lo <= m.hi THEN [m EXCEPT !.hi = m.hi - 1]
    ELSE m

\* A gate check that never sees an upload in progress.
hasUploadInProgress_never == FALSE

\* PDFUploadStore.hasUploadInProgress
hasUploadInProgress == uploadInProgress # NullId

\* A gate that is never acquired.
setUploadInProgress_forgets(id) == NullId

\* A gate that takes another value than the id it is given.
setUploadInProgress_other(id) == id + 1

\* PDFUploadStore.setUploadInProgress: the value the gate takes
setUploadInProgress(id) == id

\* A release that leaves the gate as it is.
clearUploadInProgress_keeps == uploadInProgress

\* PDFUploadStore.clearUploadInProgress: the value the gate takes
clearUploadInProgress == NullId

\* A capacity check that lets one record past the limit.
pdfAddThrows_offByOne(map) == MapSize(map) > PDF_MAX_RECORDS

\* PDFUploadStore.add throws when the primary partition is at capacity
pdfAddThrows(map) == MapSize(map) >= PDF_MAX_RECORDS

\* A quarantine that is also closed while the primary partition is full.
addToIsolatedThrows_primaryToo(map) ==
    MapSize(map) >= PDF_MAX_RECORDS \/ MapSize(records) >= PDF_MAX_RECORDS

\* PDFUploadStore.addToIsolated throws when the isolated partition is at capacity
addToIsolatedThrows(map) == MapSize(map) >= PDF_MAX_RECORDS

\* FileUploadStore.add throws when the image store is at capacity
fileAddThrows(map) == MapSize(map) >= FILE_MAX_RECORDS

\* An add that sets the record before it checks the capacity.
PDFUploadStore_add_setFirst(map, record) ==
    [threw |-> pdfAddThrows(map), map |-> MapSet(map, record)]

\* PDFUploadStore.add: the capacity check, then records.set
PDFUploadStore_add(map, record) ==
    IF pdfAddThrows(map) THEN [threw |-> TRUE, map |-> map]
    ELSE [threw |-> FALSE, map |-> MapSet(map, record)]

\* PDFUploadStore.addToIsolated: the capacity check, then isolatedRecords.set
PDFUploadStore_addToIsolated(map, record) ==
    IF addToIsolatedThrows(map) THEN [threw |-> TRUE, map |-> map]
    ELSE [threw |-> FALSE, map |-> MapSet(map, record)]

\* An add without the capacity check.
FileUploadStore_add_unchecked(map, record) ==
    [threw |-> FALSE, map |-> MapSet(map, record)]

\* FileUploadStore.add: the capacity check, then records.set
FileUploadStore_add(map, record) ==
    IF fileAddThrows(map) THEN [threw |-> TRUE, map |-> map]
    ELSE [threw |-> FALSE, map |-> MapSet(map, record)]

\* PDFUploadStore.exists
pdfExists(id) == MapHas(records, id) \/ MapHas(isolatedRecords, id)

\* A schema that accepts every identifier.
IsUuid_any(id) == TRUE

\* z.string().uuid()
IsUuid(id) == id > 0

\* A routing that quarantines the clean documents instead.
UsesIsolated_clean(scan) == scan = "limpo"

\* pdfUploadProcess, rule BR-049: the partition a scanned document is stored in
UsesIsolated(scan) == scan = "erro_scan"

\* A pipeline that rejects no scan result.
RejectsUpload_never(scan) == FALSE

\* A rejection of everything the scan did not find clean.
RejectsUpload_notClean(scan) == scan # "limpo"

\* pdfUploadProcess, rule BR-026: the scan result that rejects the upload
RejectsUpload(scan) == scan = "infectado"

\* generateAccessToken(fileId): base64 of {fileId, exp}
generateAccessToken(fileId) == <<"token", fileId>>

\* PDFUploadEntity built by pdfUploadProcess
PDFUploadEntity(id, buffer, scan) ==
    [id |-> id, fileSize |-> buffer.length, buffer |-> buffer,
     integrityValid |-> TRUE, corruptionType |-> "null", scanResult |-> scan,
     token |-> generateAccessToken(id), status |-> "concluido"]

\* A response that is the stored entity as it is, raw bytes included.
PDFUploadResponse_whole(entity) == entity

\* const { buffer, status, ...response } = entity
PDFUploadResponse(entity) ==
    [id |-> entity.id, fileSize |-> entity.fileSize,
     integrityValid |-> entity.integrityValid,
     corruptionType |-> entity.corruptionType,
     scanResult |-> entity.scanResult, token |-> entity.token]

\* FileUploadEntity built by fileUploadProcess
FileUploadEntity(id, buffer) ==
    [id |-> id, fileSize |-> buffer.length, mimeType |-> "image/png", buffer |-> buffer]

\* const { buffer, ...response } = entity
FileUploadResponse(entity) ==
    [id |-> entity.id, fileSize |-> entity.fileSize, mimeType |-> entity.mimeType]

StoredPng == [length |-> 135, head |-> PngHead, tokens |-> {}]
StoredPdf == [length |-> 67, head |-> PdfHead, tokens |-> PdfTokens]

\* FileUploadStore.records.get(id), for a key the map has
fileRecordsGet(id) ==
    IF id \in DOMAIN fileRecords.map THEN fileRecords.map[id]
    ELSE FileUploadEntity(id, StoredPng)

\* PDFUploadStore.records.get(id), for a key the map has
recordsGet(id) ==
    IF id \in DOMAIN records.map THEN records.map[id]
    ELSE PDFUploadEntity(id, StoredPdf, "limpo")

\* PDFUploadStore.isolatedRecords.get(id), for a key the map has
isolatedRecordsGet(id) ==
    IF id \in DOMAIN isolatedRecords.map THEN isolatedRecords.map[id]
    ELSE PDFUploadEntity(id, StoredPdf, "erro_scan")

\* A lookup that reads the primary partition only.
pdfGetById_primaryOnly(id) == recordsGet(id)

\* PDFUploadStore.getById: primary first, then isolated (for an id that exists)
pdfGetById(id) == IF MapHas(records, id) THEN recordsGet(id) ELSE isolatedRecordsGet(id)

\* ---------------------------------------------------------- conversion
CeilDiv(a, b) == (a + b - 1) \div b

Abs(x) == IF x < 0 THEN -x ELSE x

\* `data:${mimeType};base64,`.length for "image/png"
MimePrefixLength == 22

\* calculateExpectedBase64Size: Math.ceil((fileSize * 4) / 3) + mimePrefix.length
calculateExpectedBase64Size(fileSize, prefixLength) ==
    CeilDiv(fileSize * 4, 3) + prefixLength

\* convertToBase64(...).length: the prefix plus padded base64 (4 chars per 3 bytes)
convertToBase64Length(buffer, prefixLength) ==
    prefixLength + 4 * CeilDiv(buffer.length, 3)

\* validateConversionIntegrity: |actual - expected| <= expected * 0.01
validateConversionIntegrity(actualSize, expectedSize) ==
    100 * Abs(actualSize - expectedSize) <= expectedSize

\* ------------------------------------------------------ initial states

\* The stores as n earlier successful uploads into each partition leave them,
\* and the requests of this run not yet arrived.
InitWith(n) ==
    /\ fileRecords = [lo |-> 1, hi |-> n, map |-> <<>>]
    /\ records = [lo |-> n + 1, hi |-> 2 * n, map |-> <<>>]
    /\ isolatedRecords = [lo |-> 2 * n + 1, hi |-> 3 * n, map |-> <<>>]
    /\ uuidCount = 3 * n
    /\ uploadInProgress = NullId
    /\ arrived = 0
    /\ kind = [p \in Requests |-> "none"]
    /\ pc = [p \in Requests |-> "idle"]
    /\ stream = [p \in Requests |-> "unread"]
    /\ delivered = 0
    /\ totalSize = [p \in Requests |-> 0]
    /\ chunks = [p \in Requests |-> NoChunks]
    /\ uploadId = [p \in Requests |-> NullId]
    /\ timers = [p \in Requests |-> {}]
    /\ scanResult = [p \in Requests |-> "none"]
    /\ result = [p \in Requests |-> NoResult]
    /\ last = NoCall

\* The freshly constructed, empty stores.
Init == InitWith(0)

\* Every partition at capacity: the stores after exactly MAX_RECORDS
\* successful add calls each.
InitFull == InitWith(PDF_MAX_RECORDS)

\* uuidv4(): an identifier never issued before
uuidv4 == uuidCount + 1

\* ------------------------------------------------- document upload
\* pdfUploadProcess up to its first await: the gate check (BR-044), the id
\* reservation, and processMultipartUpload attaching its listeners.
pdfUploadBegin(p) ==
    /\ p = arrived + 1
    /\ p \in Requests
    /\ arrived' = p
    /\ kind' = [kind EXCEPT ![p] = "pdf"]
    /\ IF hasUploadInProgress
       THEN /\ result' = [result EXCEPT ![p] = Failure("UPLOAD_IN_PROGRESS")]
            /\ pc' = [pc EXCEPT ![p] = "done"]
            /\ UNCHANGED <<uploadInProgress, uuidCount, uploadId, stream>>
       ELSE /\ uuidCount' = uuidCount + 1
            /\ uploadId' = [uploadId EXCEPT ![p] = uuidv4]
            /\ uploadInProgress' = setUploadInProgress(uuidv4)
            /\ pc' = [pc EXCEPT ![p] = "ingesting"]
            /\ stream' = [stream EXCEPT ![p] = "open"]
            /\ UNCHANGED result
    /\ last' = NoCall
    /\ UNCHANGED <<fileRecords, records, isolatedRecords, delivered, totalSize,
                   chunks, timers, scanResult>>

\* The locals of processMultipartUpload's promise executor (chunks, totalSize)
\* are reachable only from the stream listeners and the pending continuation:
\* once the stream has closed and the upload has returned they are dropped.
ReleaseLocals(p) ==
    /\ totalSize' = [totalSize EXCEPT ![p] = 0]
    /\ chunks' = [chunks EXCEPT ![p] = NoChunks]

\* The inner catch of pdfUploadProcess: clear the gate, rethrow.
PdfFail(p, code) ==
    /\ uploadInProgress' = clearUploadInProgress
    /\ pc' = [pc EXCEPT ![p] = "done"]
    /\ result' = [result EXCEPT ![p] = Failure(code)]

\* A size test that also rejects a total exactly at the ceiling.
pdfTooLarge_atCeiling(total) == total >= PDF_MAX_FILE_SIZE

\* processMultipartUpload 'data' listener: totalSize > MAX_FILE_SIZE
pdfTooLarge(total) == total > PDF_MAX_FILE_SIZE

\* processMultipartUpload 'data' listener, and, when it rejects a pending
\* promise, the continuation of pdfUploadProcess (inner catch).
pdfStreamData(p, c) ==
    /\ kind[p] = "pdf"
    /\ stream[p] = "open"
    /\ delivered < MaxData
    /\ delivered' = delivered + 1
    /\ totalSize' = [totalSize EXCEPT ![p] = @ + c.length]
    /\ IF pdfTooLarge(totalSize[p] + c.length)
       THEN /\ UNCHANGED chunks
            /\ IF pc[p] = "ingesting"
               THEN PdfFail(p, "FILE_TOO_LARGE")
               ELSE UNCHANGED <<uploadInProgress, pc, result>>
       ELSE /\ chunks' = [chunks EXCEPT ![p] = ChunksPush(@, c)]
            /\ UNCHANGED <<uploadInProgress, pc, result>>
    /\ last' = NoCall
    /\ UNCHANGED <<fileRecords, records, isolatedRecords, uuidCount, arrived, kind,
                   stream, uploadId, timers, scanResult>>

\* A validation without the signature check.
PdfValidation_unsigned(buffer) ==
    IF buffer.length > PDF_MAX_FILE_SIZE THEN "FILE_TOO_LARGE"
    ELSE IF ~validatePDFStructure(buffer).valid THEN "CORRUPTED_FILE"
    ELSE "OK"

\* A validation that looks at the structure before the signature.
PdfValidation_structureFirst(buffer) ==
    IF buffer.length > PDF_MAX_FILE_SIZE THEN "FILE_TOO_LARGE"
    ELSE IF ~validatePDFStructure(buffer).valid THEN "CORRUPTED_FILE"
    ELSE IF ~isPDFFile(buffer) THEN "INVALID_FILE_TYPE"
    ELSE "OK"

\* pdfUploadProcess between processMultipartUpload resolving and scanForVirus:
\* the error thrown, or "OK"
PdfValidation(buffer) ==
    IF buffer.length > PDF_MAX_FILE_SIZE THEN "FILE_TOO_LARGE"
    ELSE IF ~isPDFFile(buffer) THEN "INVALID_FILE_TYPE"
    ELSE IF ~validatePDFStructure(buffer).valid THEN "CORRUPTED_FILE"
    ELSE "OK"

\* A scan that sets no timeout timer.
ScanTimers_scanOnly == {"scan"}

\* scanForVirus: the timers its two setTimeout calls set, the scan-completion
\* timer (100 ms) and the timeout timer (10 s).
ScanTimers == {"scan", "timeout"}

\* processMultipartUpload 'end' listener and the continuation of
\* pdfUploadProcess up to the await inside scanForVirus (both timers set).
pdfStreamEnd(p) ==
    /\ kind[p] = "pdf"
    /\ stream[p] = "open"
    /\ stream' = [stream EXCEPT ![p] = "ended"]
    /\ IF pc[p] # "ingesting"
       THEN UNCHANGED <<uploadInProgress, pc, result, timers>>
       ELSE IF chunks[p].count = 0
       THEN PdfFail(p, "VALIDATION_ERROR") /\ UNCHANGED timers
       ELSE IF PdfValidation(chunks[p].buffer) # "OK"
       THEN PdfFail(p, PdfValidation(chunks[p].buffer)) /\ UNCHANGED timers
       ELSE /\ pc' = [pc EXCEPT ![p] = "scanning"]
            /\ timers' = [timers EXCEPT ![p] = ScanTimers]
            /\ UNCHANGED <<uploadInProgress, result>>
    /\ IF pc'[p] = "done" THEN ReleaseLocals(p) ELSE UNCHANGED <<totalSize, chunks>>
    /\ last' = NoCall
    /\ UNCHANGED delivered
    /\ UNCHANGED <<fileRecords, records, isolatedRecords, uuidCount, arrived, kind,
                   uploadId, scanResult>>

\* processMultipartUpload 'error' listener and the continuation it wakes.
pdfStreamError(p) ==
    /\ kind[p] = "pdf"
    /\ stream[p] = "open"
    /\ stream' = [stream EXCEPT ![p] = "errored"]
    /\ IF pc[p] = "ingesting"
       THEN PdfFail(p, "UPLOAD_FAILED")
       ELSE UNCHANGED <<uploadInProgress, pc, result>>
    /\ ReleaseLocals(p)
    /\ last' = NoCall
    /\ UNCHANGED delivered
    /\ UNCHANGED <<fileRecords, records, isolatedRecords, uuidCount, arrived, kind,
                   uploadId, timers, scanResult>>

\* The caller abandons the request: the stream delivers nothing more, neither
\* 'end' nor 'error'. processMultipartUpload listens to no other event.
pdfStreamStall(p) ==
    /\ kind[p] = "pdf"
    /\ stream[p] = "open"
    /\ stream' = [stream EXCEPT ![p] = "stalled"]
    /\ last' = NoCall
    /\ UNCHANGED <<storeVars, arrived, kind, pc, delivered, totalSize, chunks,
                   uploadId, timers, scanResult, result>>

\* What the scan-completion timer resolves with. The placeholder resolves
\* 'limpo'; the promise is typed 'limpo' | 'infectado', the verdicts of the
\* engine call it stands for.
ScanVerdicts == {"limpo", "infectado"}

\* pdfUploadProcess after scanForVirus returned `scan` for request p: reject
\* (BR-026), or build the entity and store it (BR-049); a throw of add /
\* addToIsolated is caught by the inner catch and wrapped as UPLOAD_FAILED.
PdfStore(p, scan) ==
    LET entity == PDFUploadEntity(uploadId[p], chunks[p].buffer, scan)
        added == IF UsesIsolated(scan)
                 THEN PDFUploadStore_addToIsolated(isolatedRecords, entity)
                 ELSE PDFUploadStore_add(records, entity)
    IN  IF RejectsUpload(scan)
        THEN PdfFail(p, "MALWARE_DETECTED") /\ UNCHANGED <<records, isolatedRecords>>
        ELSE /\ IF UsesIsolated(scan)
                THEN isolatedRecords' = added.map /\ UNCHANGED records
                ELSE records' = added.map /\ UNCHANGED isolatedRecords
             /\ IF added.threw
                THEN PdfFail(p, "UPLOAD_FAILED")
                ELSE /\ uploadInProgress' = clearUploadInProgress
                     /\ pc' = [pc EXCEPT ![p] = "done"]
                     /\ result' = [result EXCEPT ![p] =
                                      [code |-> "OK", response |-> PDFUploadResponse(entity)]]

\* A race whose value follows the latest resolution.
RaceSettle_latest(current, value) == value

\* Promise.race([scanPromise, timeoutPromise]): the value the race has after one
\* of its promises resolves with `value`. A promise settles once: the first
\* resolution gives the value, a later one is ignored.
RaceSettle(current, value) == IF current = "none" THEN value ELSE current

\* scanForVirus: the scan-completion timer fires first, settles the race, and
\* pdfUploadProcess continues to its end. The timeout timer stays pending.
scanTimerFires(p, verdict) ==
    /\ pc[p] = "scanning"
    /\ "scan" \in timers[p]
    /\ timers' = [timers EXCEPT ![p] = @ \ {"scan"}]
    /\ scanResult' = [scanResult EXCEPT ![p] = RaceSettle(@, verdict)]
    /\ PdfStore(p, verdict)
    /\ ReleaseLocals(p)
    /\ last' = NoCall
    /\ UNCHANGED delivered
    /\ UNCHANGED <<fileRecords, uuidCount, arrived, kind, stream, uploadId>>

\* scanForVirus: the timeout timer fires first and settles the race. The
\* scan-completion timer stays pending.
scanTimeoutFires(p) ==
    /\ pc[p] = "scanning"
    /\ "timeout" \in timers[p]
    /\ timers' = [timers EXCEPT ![p] = @ \ {"timeout"}]
    /\ scanResult' = [scanResult EXCEPT ![p] = RaceSettle(@, "erro_scan")]
    /\ PdfStore(p, "erro_scan")
    /\ ReleaseLocals(p)
    /\ last' = NoCall
    /\ UNCHANGED delivered
    /\ UNCHANGED <<fileRecords, uuidCount, arrived, kind, stream, uploadId>>

\* scanForVirus: invoking the scan throws. The catch returns 'erro_scan' and
\* pdfUploadProcess continues to its end with it. The placeholder's try block
\* has nothing that throws; the action stands for the engine call failing, in
\* the place of the two setTimeout calls, so no timer of this scan is pending.
scanForVirusCatch(p) ==
    /\ pc[p] = "scanning"
    /\ timers[p] = ScanTimers
    /\ timers' = [timers EXCEPT ![p] = {}]
    /\ scanResult' = [scanResult EXCEPT ![p] = "erro_scan"]
    /\ PdfStore(p, "erro_scan")
    /\ ReleaseLocals(p)
    /\ last' = NoCall
    /\ UNCHANGED delivered
    /\ UNCHANGED <<fileRecords, uuidCount, arrived, kind, stream, uploadId>>

\* scanForVirus: the scan-completion timer fires after the timeout settled
\* the race. Its resolve reaches a race that is already settled, and
\* pdfUploadProcess is no longer waiting for it.
scanTimerFiresLate(p, verdict) ==
    /\ pc[p] # "scanning"
    /\ "scan" \in timers[p]
    /\ timers' = [timers EXCEPT ![p] = @ \ {"scan"}]
    /\ scanResult' = [scanResult EXCEPT ![p] = RaceSettle(@, verdict)]
    /\ last' = NoCall
    /\ UNCHANGED <<storeVars, arrived, kind, pc, stream, delivered, totalSize,
                   chunks, uploadId, result>>

\* scanForVirus: the timeout timer fires after the scan settled the race.
scanTimeoutFiresLate(p) ==
    /\ pc[p] # "scanning"
    /\ "timeout" \in timers[p]
    /\ timers' = [timers EXCEPT ![p] = @ \ {"timeout"}]
    /\ scanResult' = [scanResult EXCEPT ![p] = RaceSettle(@, "erro_scan")]
    /\ last' = NoCall
    /\ UNCHANGED <<storeVars, arrived, kind, pc, stream, delivered, totalSize,
                   chunks, uploadId, result>>

\* ---------------------------------------------------- image upload
\* An image upload that is turned away while the document gate is set.
fileUploadBegin_gated(p) ==
    /\ p = arrived + 1
    /\ p \in Requests
    /\ arrived' = p
    /\ kind' = [kind EXCEPT ![p] = "png"]
    /\ IF hasUploadInProgress
       THEN /\ pc' = [pc EXCEPT ![p] = "done"]
            /\ result' = [result EXCEPT ![p] = Failure("UPLOAD_IN_PROGRESS")]
            /\ UNCHANGED stream
       ELSE /\ pc' = [pc EXCEPT ![p] = "ingesting"]
            /\ stream' = [stream EXCEPT ![p] = "open"]
            /\ UNCHANGED result
    /\ last' = NoCall
    /\ UNCHANGED <<storeVars, delivered, totalSize, chunks, uploadId, timers,
                   scanResult>>

\* fileUploadProcess up to its first await: processMultipartUpload attaches
\* its listeners. There is no gate.
fileUploadBegin(p) ==
    /\ p = arrived + 1
    /\ p \in Requests
    /\ arrived' = p
    /\ kind' = [kind EXCEPT ![p] = "png"]
    /\ pc' = [pc EXCEPT ![p] = "ingesting"]
    /\ stream' = [stream EXCEPT ![p] = "open"]
    /\ last' = NoCall
    /\ UNCHANGED <<storeVars, delivered, totalSize, chunks, uploadId, timers,
                   scanResult, result>>

FileFail(p, code) ==
    /\ pc' = [pc EXCEPT ![p] = "done"]
    /\ result' = [result EXCEPT ![p] = Failure(code)]

\* processMultipartUpload 'data' listener (image service): totalSize > MAX_FILE_SIZE
fileTooLarge(total) == total > FILE_MAX_FILE_SIZE

\* processMultipartUpload 'data' listener (image service).
fileStreamData(p, c) ==
    /\ kind[p] = "png"
    /\ stream[p] = "open"
    /\ delivered < MaxData
    /\ delivered' = delivered + 1
    /\ totalSize' = [totalSize EXCEPT ![p] = @ + c.length]
    /\ IF fileTooLarge(totalSize[p] + c.length)
       THEN /\ UNCHANGED chunks
            /\ IF pc[p] = "ingesting"
               THEN FileFail(p, "FILE_TOO_LARGE")
               ELSE UNCHANGED <<pc, result>>
       ELSE /\ chunks' = [chunks EXCEPT ![p] = ChunksPush(@, c)]
            /\ UNCHANGED <<pc, result>>
    /\ last' = NoCall
    /\ UNCHANGED <<storeVars, arrived, kind, stream, uploadId, timers, scanResult>>

\* fileUploadProcess between processMultipartUpload resolving and uuidv4():
\* the error thrown, or "OK"
FileValidation(buffer) ==
    IF buffer.length > FILE_MAX_FILE_SIZE THEN "FILE_TOO_LARGE"
    ELSE IF ~isPNGFile(buffer) THEN "INVALID_FILE_TYPE"
    ELSE IF extractPNGDimensionsThrows(buffer) THEN "CORRUPTED_FILE"
    ELSE "OK"

\* processMultipartUpload 'end' listener and the rest of fileUploadProcess.
fileStreamEnd(p) ==
    /\ kind[p] = "png"
    /\ stream[p] = "open"
    /\ stream' = [stream EXCEPT ![p] = "ended"]
    /\ IF pc[p] # "ingesting"
       THEN UNCHANGED <<fileRecords, uuidCount, pc, result>>
       ELSE IF chunks[p].count = 0
       THEN FileFail(p, "VALIDATION_ERROR") /\ UNCHANGED <<fileRecords, uuidCount>>
       ELSE IF FileValidation(chunks[p].buffer) # "OK"
       THEN /\ FileFail(p, FileValidation(chunks[p].buffer))
            /\ UNCHANGED <<fileRecords, uuidCount>>
       ELSE LET entity == FileUploadEntity(uuidv4, chunks[p].buffer)
                added == FileUploadStore_add(fileRecords, entity)
            IN  /\ uuidCount' = uuidCount + 1
                /\ fileRecords' = added.map
                /\ IF added.threw
                   THEN FileFail(p, "UPLOAD_FAILED")
                   ELSE /\ pc' = [pc EXCEPT ![p] = "done"]
                        /\ result' = [result EXCEPT ![p] =
                                [code |-> "OK", response |-> FileUploadResponse(entity)]]
    /\ ReleaseLocals(p)
    /\ last' = NoCall
    /\ UNCHANGED delivered
    /\ UNCHANGED <<records, isolatedRecords, uploadInProgress, arrived, kind,
                   uploadId, timers, scanResult>>

\* processMultipartUpload 'error' listener (image service).
fileStreamError(p) ==
    /\ kind[p] = "png"
    /\ stream[p] = "open"
    /\ stream' = [stream EXCEPT ![p] = "errored"]
    /\ IF pc[p] = "ingesting"
       THEN FileFail(p, "UPLOAD_FAILED")
       ELSE UNCHANGED <<pc, result>>
    /\ ReleaseLocals(p)
    /\ last' = NoCall
    /\ UNCHANGED delivered
    /\ UNCHANGED <<storeVars, arrived, kind, uploadId, timers, scanResult>>

\* ------------------------------------------- get / cancel / convert
\* Identifiers a caller passes to the document endpoints: a malformed one,
\* the last of the initial entries of each partition under InitFull (well-formed
\* and absent under Init), and the ones the document uploads of this run
\* reserved (absent while the upload is in flight and after it failed).
PdfIdInputs ==
    {MalformedId, records.lo + PDF_MAX_RECORDS - 1,
     isolatedRecords.lo + PDF_MAX_RECORDS - 1} \cup
    ({uploadId[p] : p \in Requests} \ {NullId})

\* Identifiers a caller passes to the image endpoints: a malformed one, the
\* last initial entry under InitFull (absent under Init), and the ones the
\* image uploads of this run returned.
FileIdInputs ==
    {MalformedId, fileRecords.lo + FILE_MAX_RECORDS - 1} \cup
    ({result[p].response.id : p \in {q \in Requests : kind[q] = "png"}} \ {NullId})

\* pdfUploadGet: the code it ends with
pdfUploadGetCode(id) ==
    IF ~IsUuid(id) THEN "VALIDATION_ERROR"
    ELSE IF ~pdfExists(id) THEN "NOT_FOUND"
    ELSE "OK"

pdfUploadGet(id) ==
    /\ last' = [op |-> "pdfUploadGet", id |-> id, code |-> pdfUploadGetCode(id),
                response |-> IF pdfUploadGetCode(id) = "OK"
                             THEN PDFUploadResponse(pdfGetById(id)) ELSE NoResponse]
    /\ UNCHANGED <<storeVars, reqVars>>

\* pdfUploadCancel; PDFUploadStore.delete is
\* records.delete(id) || isolatedRecords.delete(id)
pdfUploadCancel(id) ==
    /\ IF ~IsUuid(id)
       THEN /\ last' = [op |-> "pdfUploadCancel", id |-> id, code |-> "VALIDATION_ERROR",
                         response |-> NoResponse]
            /\ UNCHANGED <<records, isolatedRecords>>
       ELSE IF ~pdfExists(id)
       THEN /\ last' = [op |-> "pdfUploadCancel", id |-> id, code |-> "NOT_FOUND",
                         response |-> NoResponse]
            /\ UNCHANGED <<records, isolatedRecords>>
       ELSE /\ last' = [op |-> "pdfUploadCancel", id |-> id, code |-> "OK",
                         response |-> NoResponse]
            /\ IF MapHas(records, id)
               THEN records' = MapDelete(records, id) /\ UNCHANGED isolatedRecords
               ELSE isolatedRecords' = MapDelete(isolatedRecords, id) /\ UNCHANGED records
    /\ UNCHANGED <<fileRecords, uploadInProgress, uuidCount, reqVars>>

\* fileUploadGet: the code it ends with
fileUploadGetCode(id) ==
    IF ~IsUuid(id) THEN "VALIDATION_ERROR"
    ELSE IF ~MapHas(fileRecords, id) THEN "NOT_FOUND"
    ELSE "OK"

fileUploadGet(id) ==
    /\ last' = [op |-> "fileUploadGet", id |-> id, code |-> fileUploadGetCode(id),
                response |-> IF fileUploadGetCode(id) = "OK"
                             THEN FileUploadResponse(fileRecordsGet(id)) ELSE NoResponse]
    /\ UNCHANGED <<storeVars, reqVars>>

fileUploadCancel(id) ==
    /\ last' = [op |-> "fileUploadCancel", id |-> id, code |-> fileUploadGetCode(id),
                response |-> NoResponse]
    /\ IF fileUploadGetCode(id) = "OK"
       THEN fileRecords' = MapDelete(fileRecords, id)
       ELSE UNCHANGED fileRecords
    /\ UNCHANGED <<records, isolatedRecords, uploadInProgress, uuidCount, reqVars>>

\* pngConversionProcess: the code it ends with. A ServiceError thrown inside the
\* try (METADATA_EXTRACTION_FAILED from extractPNGMetadata included) is rethrown
\* unchanged by the outer catch; the MEMORY_ERROR branch only sees errors that
\* are not ServiceErrors.
pngConversionCode(id) ==
    IF ~IsUuid(id) THEN "VALIDATION_ERROR"
    ELSE IF ~MapHas(fileRecords, id) THEN "NOT_FOUND"
    ELSE LET fileEntity == fileRecordsGet(id)
             expectedSize == calculateExpectedBase64Size(fileEntity.fileSize, MimePrefixLength)
             actualSize == convertToBase64Length(fileEntity.buffer, MimePrefixLength)
         IN  IF extractPNGMetadataThrows(fileEntity.buffer) THEN "METADATA_EXTRACTION_FAILED"
             ELSE IF ~validateConversionIntegrity(actualSize, expectedSize) THEN "INTEGRITY_ERROR"
             ELSE "OK"

\* pngConversionProcess: the response object built before `return response`.
\* Its metadata property is the object extractPNGMetadata returned.
PNGConversionResponse(fileEntity) ==
    [fileId |-> fileEntity.id,
     base64Size |-> convertToBase64Length(fileEntity.buffer, MimePrefixLength),
     expectedSize |-> calculateExpectedBase64Size(fileEntity.fileSize, MimePrefixLength),
     integrityValid |-> TRUE,
     metadata |-> extractPNGMetadata(fileEntity.buffer)]

\* The response as the caller receives it. The finally block runs
\* cleanupMemory(memoryReferences) after `return response` was evaluated and
\* before the promise is fulfilled; memoryReferences holds the metadata object
\* (the very object response.metadata refers to) and the base64 string, which
\* is not an object and is skipped.
DeliveredResponse(response) ==
    [response EXCEPT !.metadata = cleanupMemory(@)]

pngConversionProcess(id) ==
    /\ last' = [op |-> "pngConversionProcess", id |-> id, code |-> pngConversionCode(id),
                response |-> IF pngConversionCode(id) = "OK"
                             THEN DeliveredResponse(PNGConversionResponse(fileRecordsGet(id)))
                             ELSE NoResponse]
    /\ UNCHANGED <<storeVars, reqVars>>

\* ------------------------------------------------------ specification
\* The document endpoints.
NextDoc ==
    \/ \E p \in Requests : pdfUploadBegin(p)
    \/ \E p \in Requests : \E c \in PdfChunks : pdfStreamData(p, c)
    \/ \E p \in Requests : pdfStreamEnd(p)
    \/ \E p \in Requests : pdfStreamError(p)
    \/ \E p \in Requests : \E v \in ScanVerdicts : scanTimerFires(p, v)
    \/ \E p \in Requests : scanTimeoutFires(p)
    \/ \E id \in PdfIdInputs : pdfUploadGet(id)
    \/ \E id \in PdfIdInputs : pdfUploadCancel(id)

\* The image endpoints.
NextImage ==
    \/ \E p \in Requests : fileUploadBegin(p)
    \/ \E p \in Requests : \E c \in PngChunks : fileStreamData(p, c)
    \/ \E p \in Requests : fileStreamEnd(p)
    \/ \E p \in Requests : fileStreamError(p)
    \/ \E id \in FileIdInputs : fileUploadGet(id)
    \/ \E id \in FileIdInputs : fileUploadCancel(id)
    \/ \E id \in FileIdInputs : pngConversionProcess(id)

\* The document endpoints, with callers that may abandon a request.
NextDocAbandon ==
    \/ NextDoc
    \/ \E p \in Requests : pdfStreamStall(p)

\* The run has made no call to the image service: no image upload has arrived
\* and the image store is as InitFull left it.
ImageServiceIdle ==
    /\ \A p \in Requests : kind[p] # "png"
    /\ fileRecords = [lo |-> 1, hi |-> FILE_MAX_RECORDS, map |-> <<>>]

\* The run has made no call to the document service.
DocServiceIdle ==
    /\ \A p \in Requests : kind[p] # "pdf"
    /\ records = [lo |-> PDF_MAX_RECORDS + 1, hi |-> 2 * PDF_MAX_RECORDS, map |-> <<>>]
    /\ isolatedRecords =
          [lo |-> 2 * PDF_MAX_RECORDS + 1, hi |-> 3 * PDF_MAX_RECORDS, map |-> <<>>]

\* Runs that call one service only. The two services share no state
\* (fileUploadStore on one side, pdfUploadStore on the other).
NextOneFormat ==
    \/ ImageServiceIdle /\ NextDoc
    \/ DocServiceIdle /\ NextImage

\* Uploads of both formats whose bodies probe the signature checks.
NextSignature ==
    \/ \E p \in Requests : pdfUploadBegin(p)
    \/ \E p \in Requests : \E c \in SignaturePdfChunks : pdfStreamData(p, c)
    \/ \E p \in Requests : pdfStreamEnd(p)
    \/ \E p \in Requests : \E v \in ScanVerdicts : scanTimerFires(p, v)
    \/ \E p \in Requests : fileUploadBegin(p)
    \/ \E p \in Requests : \E c \in SignaturePngChunks : fileStreamData(p, c)
    \/ \E p \in Requests : fileStreamEnd(p)

\* Uploads of one format per run, and nothing else: the stream events and the
\* scan timers.
NextIngestion ==
    \/ /\ \A q \in Requests : kind[q] # "png"
       /\ \/ \E p \in Requests : pdfUploadBegin(p)
          \/ \E p \in Requests : \E c \in PdfChunks : pdfStreamData(p, c)
          \/ \E p \in Requests : pdfStreamEnd(p)
          \/ \E p \in Requests : pdfStreamError(p)
          \/ \E p \in Requests : \E v \in ScanVerdicts : scanTimerFires(p, v)
          \/ \E p \in Requests : scanTimeoutFires(p)
    \/ /\ \A q \in Requests : kind[q] # "pdf"
       /\ \/ \E p \in Requests : fileUploadBegin(p)
          \/ \E p \in Requests : \E c \in PngChunks : fileStreamData(p, c)
          \/ \E p \in Requests : fileStreamEnd(p)
          \/ \E p \in Requests : fileStreamError(p)

\* Uploads of one format per run whose bodies fail at each stage in turn, and
\* the cancels that make room in a full store.
NextStages ==
    \/ /\ \A q \in Requests : kind[q] # "png"
       /\ \/ \E p \in Requests : pdfUploadBegin(p)
          \/ \E p \in Requests : \E c \in StagePdfChunks : pdfStreamData(p, c)
          \/ \E p \in Requests : pdfStreamEnd(p)
          \/ \E p \in Requests : pdfStreamError(p)
          \/ \E p \in Requests : \E v \in ScanVerdicts : scanTimerFires(p, v)
          \/ \E p \in Requests : scanTimeoutFires(p)
          \/ \E id \in PdfIdInputs : pdfUploadCancel(id)
    \/ /\ \A q \in Requests : kind[q] # "pdf"
       /\ \/ \E p \in Requests : fileUploadBegin(p)
          \/ \E p \in Requests : \E c \in StagePngChunks : fileStreamData(p, c)
          \/ \E p \in Requests : fileStreamEnd(p)
          \/ \E p \in Requests : fileStreamError(p)
          \/ \E id \in FileIdInputs : fileUploadCancel(id)

\* Uploads of well-formed files, one format per run, and every call of that
\* format's service on the identifiers of PdfIdInputs / FileIdInputs.
NextCalls ==
    \/ /\ \A q \in Requests : kind[q] # "png"
       /\ \/ \E p \in Requests : pdfUploadBegin(p)
          \/ \E p \in Requests : pdfStreamData(p, StoredPdf)
          \/ \E p \in Requests : pdfStreamEnd(p)
          \/ \E p \in Requests : \E v \in ScanVerdicts : scanTimerFires(p, v)
          \/ \E p \in Requests : scanTimeoutFires(p)
          \/ \E id \in PdfIdInputs : pdfUploadGet(id)
          \/ \E id \in PdfIdInputs : pdfUploadCancel(id)
          \/ \E id \in PdfIdInputs : pngConversionProcess(id)
    \/ /\ \A q \in Requests : kind[q] # "pdf"
       /\ \/ \E p \in Requests : fileUploadBegin(p)
          \/ \E p \in Requests : fileStreamData(p, StoredPng)
          \/ \E p \in Requests : fileStreamEnd(p)
          \/ \E id \in FileIdInputs : fileUploadGet(id)
          \/ \E id \in FileIdInputs : fileUploadCancel(id)
          \/ \E id \in FileIdInputs : pngConversionProcess(id)

\* Two well-formed PNGs of different sizes.
ConcurrentPngChunks == {StoredPng, [length |-> 67, head |-> PngHead, tokens |-> {}]}

\* Uploads of well-formed files of both formats in one run, interleaved.
NextConcurrent ==
    \/ \E p \in Requests : pdfUploadBegin(p)
    \/ \E p \in Requests : pdfStreamData(p, StoredPdf)
    \/ \E p \in Requests : pdfStreamEnd(p)
    \/ \E p \in Requests : \E v \in ScanVerdicts : scanTimerFires(p, v)
    \/ \E p \in Requests : scanTimeoutFires(p)
    \/ \E p \in Requests : fileUploadBegin(p)
    \/ \E p \in Requests : \E c \in ConcurrentPngChunks : fileStreamData(p, c)
    \/ \E p \in Requests : fileStreamEnd(p)
    \/ \E p \in Requests : fileStreamError(p)

\* Document uploads of well-formed files with both timers of every scan: the
\* one that settles the race and the one that fires after it.
NextScan ==
    \/ \E p \in Requests : pdfUploadBegin(p)
    \/ \E p \in Requests : pdfStreamData(p, StoredPdf)
    \/ \E p \in Requests : pdfStreamEnd(p)
    \/ \E p \in Requests : \E v \in ScanVerdicts : scanTimerFires(p, v)
    \/ \E p \in Requests : scanTimeoutFires(p)
    \/ \E p \in Requests : \E v \in ScanVerdicts : scanTimerFiresLate(p, v)
    \/ \E p \in Requests : scanTimeoutFiresLate(p)

\* Document uploads of well-formed files whose scan may also throw, and the
\* cancels that make room in a full partition.
NextScanFull ==
    \/ \E p \in Requests : pdfUploadBegin(p)
    \/ \E p \in Requests : pdfStreamData(p, StoredPdf)
    \/ \E p \in Requests : pdfStreamEnd(p)
    \/ \E p \in Requests : \E v \in ScanVerdicts : scanTimerFires(p, v)
    \/ \E p \in Requests : scanTimeoutFires(p)
    \/ \E p \in Requests : scanForVirusCatch(p)
    \/ \E id \in PdfIdInputs : pdfUploadCancel(id)

\* A well-formed PDF and a file one byte over the size ceiling.
GatePdfChunks ==
    {StoredPdf, [length |-> PDF_MAX_FILE_SIZE + 1, head |-> PdfHead, tokens |-> PdfTokens]}

\* Document uploads that succeed and fail, together with everything else a
\* caller can do meanwhile: get, cancel, convert and image uploads.
NextGate ==
    \/ \E p \in Requests : pdfUploadBegin(p)
    \/ \E p \in Requests : \E c \in GatePdfChunks : pdfStreamData(p, c)
    \/ \E p \in Requests : pdfStreamEnd(p)
    \/ \E p \in Requests : pdfStreamError(p)
    \/ \E p \in Requests : \E v \in ScanVerdicts : scanTimerFires(p, v)
    \/ \E p \in Requests : scanTimeoutFires(p)
    \/ \E id \in PdfIdInputs : pdfUploadGet(id)
    \/ \E id \in PdfIdInputs : pdfUploadCancel(id)
    \/ \E id \in PdfIdInputs : pngConversionProcess(id)
    \/ \E p \in Requests : fileUploadBegin(p)
    \/ \E p \in Requests : fileStreamData(p, StoredPng)
    \/ \E p \in Requests : fileStreamEnd(p)

\* Both services side by side.
Next ==
    \/ NextDoc
    \/ NextImage

Spec == Init /\ [][Next]_vars

\* Documents only, from empty stores.
SpecDoc == Init /\ [][NextDoc]_vars

\* Documents only, from full partitions.
SpecDocFull == InitFull /\ [][NextDoc]_vars

\* Images only, from an empty store.
SpecImage == Init /\ [][NextImage]_vars

\* One format per run, from full partitions.
SpecStoreFull == InitFull /\ [][NextOneFormat]_vars

\* Uploads of one format per run, from empty stores.
SpecIngestion == Init /\ [][NextIngestion]_vars

\* Uploads that fail at each stage, from full stores.
SpecStages == InitFull /\ [][NextStages]_vars

\* Uploads of well-formed files and the calls on them, from empty stores.
SpecCalls == Init /\ [][NextCalls]_vars

\* Uploads of both formats interleaved, from empty stores.
SpecConcurrent == Init /\ [][NextConcurrent]_vars

\* Document uploads and all their scan timers, from empty stores.
SpecScan == Init /\ [][NextScan]_vars

\* Document uploads whose scan may throw, from full partitions. Of the scan
\* only the timeout timer is taken to fire for certain: the scan itself may
\* never answer.
TimeoutFairness == \A p \in Requests : WF_vars(scanTimeoutFires(p))

SpecScanFull == InitFull /\ [][NextScanFull]_vars /\ TimeoutFairness

\* Document uploads and the other operations side by side, from empty stores.
SpecGate == Init /\ [][NextGate]_vars

\* Uploads that probe the signature checks, from empty stores.
SpecSignature == Init /\ [][NextSignature]_vars

\* Documents only, with callers that may abandon a request. Timers fire and
\* the stream events of a request that was not abandoned are delivered.
Fairness ==
    \A p \in Requests :
        /\ WF_vars(pdfStreamEnd(p))
        /\ WF_vars(\E v \in ScanVerdicts : scanTimerFires(p, v))
        /\ WF_vars(scanTimeoutFires(p))

SpecDocAbandon == Init /\ [][NextDocAbandon]_vars /\ Fairness

\* ============================================================= properties
\* Request p is a document upload that acquired the gate and has not yet
\* reached a terminal outcome.
InFlight(p) == kind[p] = "pdf" /\ pc[p] \in {"ingesting", "scanning"}

\* The codes a document upload that held the gate can end with.
TerminalCodes ==
    {"OK", "VALIDATION_ERROR", "FILE_TOO_LARGE", "INVALID_FILE_TYPE",
     "CORRUPTED_FILE", "MALWARE_DETECTED", "UPLOAD_FAILED"}

\* Request p ended with an error.
Failed(p) == result[p].code \notin {"NONE", "OK"}

\* C1: at any moment at most one document upload is between acquiring the
\* gate and reaching a terminal outcome, and it is the one the gate names.
C1_SingleUploadInFlight ==
    /\ Cardinality({p \in Requests : InFlight(p)}) <= 1
    /\ \A p \in Requests : InFlight(p) => uploadInProgress = uploadId[p]

\* A document upload is being scanned while a concurrent one was turned away.
C1_Witness ==
    \E p, q \in Requests :
        /\ pc[p] = "scanning"
        /\ uploadInProgress = uploadId[p]
        /\ result[q].code = "UPLOAD_IN_PROGRESS"

\* C2: a document upload that starts while the gate is set fails with
\* UPLOAD_IN_PROGRESS without a byte of its stream being read, and changes
\* neither the gate nor either partition; its stream is never read later.
C2_SecondUploadRejected ==
    [][/\ \A p \in Requests :
            (kind[p] = "none" /\ kind'[p] = "pdf" /\ uploadInProgress # NullId) =>
                /\ result'[p].code = "UPLOAD_IN_PROGRESS"
                /\ stream'[p] = "unread"
                /\ delivered' = delivered
                /\ uploadId'[p] = NullId
                /\ uploadInProgress' = uploadInProgress
                /\ records' = records
                /\ isolatedRecords' = isolatedRecords
       /\ \A p \in Requests :
            result[p].code = "UPLOAD_IN_PROGRESS" =>
                /\ stream'[p] = "unread"
                /\ chunks'[p] = NoChunks
                /\ totalSize'[p] = 0]_vars

\* An upload was turned away, its stream unread, while the upload holding the
\* gate had buffered part of its body.
C2_Witness ==
    \E p, q \in Requests :
        /\ pc[p] = "ingesting"
        /\ chunks[p].count > 0
        /\ uploadInProgress = uploadId[p]
        /\ result[q].code = "UPLOAD_IN_PROGRESS"
        /\ stream[q] = "unread"

\* C3: the step that takes a gate-holding document upload to its terminal
\* outcome, whichever it is, leaves the gate clear, and an upload that starts
\* when no upload is in flight is not rejected with UPLOAD_IN_PROGRESS.
C3_TerminalOutcomeClearsGate ==
    [][/\ \A p \in Requests :
            (InFlight(p) /\ pc'[p] = "done") =>
                /\ result'[p].code \in TerminalCodes
                /\ uploadInProgress' = NullId
       /\ \A q \in Requests :
            (kind[q] = "none" /\ kind'[q] = "pdf" /\ \A p \in Requests : ~InFlight(p)) =>
                result'[q].code # "UPLOAD_IN_PROGRESS"]_vars

\* A gate-holding upload failed and a later upload acquired the gate.
C3_Witness ==
    \E p, q \in Requests :
        /\ p < q
        /\ uploadId[p] # NullId
        /\ Failed(p)
        /\ uploadId[q] # NullId
        /\ uploadInProgress = uploadId[q]

\* The caller of document upload p abandoned it after part of the body was
\* buffered, and p still holds the gate.
Abandoned(p) ==
    /\ stream[p] = "stalled"
    /\ pc[p] = "ingesting"
    /\ chunks[p].count > 0
    /\ uploadInProgress = uploadId[p]

\* C4: after a document upload is abandoned with part of its body buffered,
\* the gate is eventually cleared.
C4_AbandonedUploadReleasesGate ==
    \A p \in Requests : Abandoned(p) ~> (uploadInProgress = NullId)

\* C5: a record is in the isolated partition exactly when its scanResult is
\* erro_scan, and no id is in both partitions.
C5_QuarantineIffScanError ==
    /\ \A id \in MapKeys(isolatedRecords) : isolatedRecordsGet(id).scanResult = "erro_scan"
    /\ \A id \in MapKeys(records) : recordsGet(id).scanResult # "erro_scan"
    /\ MapKeys(records) \cap MapKeys(isolatedRecords) = {}

\* This run stored a document in each partition.
C5_Witness ==
    /\ \E p \in Requests : uploadId[p] \in DOMAIN records.map
    /\ \E p \in Requests : uploadId[p] \in DOMAIN isolatedRecords.map

\* The step in which document upload p, validated, learns its scan result.
ScanSettles(p) == pc[p] = "scanning" /\ pc'[p] = "done"

\* What the scan result fixes for upload p: infected is rejected and stores
\* nothing, a scan error is accepted into quarantine, clean into primary.
ScanOutcome(p) ==
    CASE scanResult'[p] = "infectado" ->
            /\ result'[p].code = "MALWARE_DETECTED"
            /\ records' = records /\ isolatedRecords' = isolatedRecords
      [] scanResult'[p] = "erro_scan" ->
            /\ result'[p].code = "OK"
            /\ result'[p].response.scanResult = "erro_scan"
            /\ MapHas(isolatedRecords', uploadId[p])
            /\ ~MapHas(records', uploadId[p])
      [] scanResult'[p] = "limpo" ->
            /\ result'[p].code = "OK"
            /\ result'[p].response.scanResult = "limpo"
            /\ MapHas(records', uploadId[p])
            /\ ~MapHas(isolatedRecords', uploadId[p])

\* The partition a scan result routes to is at capacity.
TargetFull(scan) ==
    \/ scan = "limpo" /\ MapSize(records) >= PDF_MAX_RECORDS
    \/ scan = "erro_scan" /\ MapSize(isolatedRecords) >= PDF_MAX_RECORDS

\* C6 as stated: for a validated document the outcome is fixed by the scan
\* result alone, and no scan result other than infected rejects the upload.
C6_OutcomeFixedByScan ==
    [][\A p \in Requests : ScanSettles(p) => ScanOutcome(p)]_vars

\* C6: for a validated document whose target partition is below capacity the
\* outcome is fixed by the scan result (infected rejected with
\* MALWARE_DETECTED and nothing stored, scan error accepted into quarantine,
\* clean accepted into primary); with the target partition at capacity the
\* upload fails with UPLOAD_FAILED and nothing is stored.
C6_OutcomeFixedByScanBelowCapacity ==
    [][\A p \in Requests :
            ScanSettles(p) =>
                IF TargetFull(scanResult'[p])
                THEN /\ result'[p].code = "UPLOAD_FAILED"
                     /\ records' = records /\ isolatedRecords' = isolatedRecords
                ELSE ScanOutcome(p)]_vars

\* One upload was accepted into quarantine after a scan error and another
\* was rejected as infected.
C6_Witness ==
    \E p, q \in Requests :
        /\ result[p].code = "OK"
        /\ result[p].response.scanResult = "erro_scan"
        /\ MapHas(isolatedRecords, uploadId[p])
        /\ result[q].code = "MALWARE_DETECTED"

\* C7: the step in which an upload, image or document, fails leaves the image
\* store and both document partitions as they were, and the id reserved for a
\* failed document upload is not retrievable with the get endpoint.
C7_FailedUploadStoresNothing ==
    [][/\ \A p \in Requests :
            (result[p].code = "NONE" /\ result'[p].code \notin {"NONE", "OK"}) =>
                /\ fileRecords' = fileRecords
                /\ records' = records
                /\ isolatedRecords' = isolatedRecords
       /\ \A p \in Requests :
            (kind[p] = "pdf" /\ Failed(p) /\ uploadId[p] # NullId) =>
                (pdfUploadGetCode(uploadId[p]) = "NOT_FOUND")']_vars

\* A document upload passed validation and failed at the full primary
\* partition, and the get endpoint was then asked for the id it had reserved.
C7_Witness ==
    \E p \in Requests :
        /\ kind[p] = "pdf"
        /\ result[p].code = "UPLOAD_FAILED"
        /\ scanResult[p] = "limpo"
        /\ last.op = "pdfUploadGet" /\ last.id = uploadId[p] /\ last.code = "NOT_FOUND"

\* The step stores an image / a clean document / a quarantined document, or
\* fails to because of the capacity.
FileAddAttempt(p) ==
    /\ kind[p] = "png" /\ pc[p] = "ingesting"
    /\ stream[p] = "open" /\ stream'[p] = "ended"
    /\ chunks[p].count > 0
    /\ FileValidation(chunks[p].buffer) = "OK"

PdfAddAttempt(p, scan) == ScanSettles(p) /\ scanResult'[p] = scan

\* An add to `map` that yields `mapAfter` and ends request p: it succeeds when
\* the partition held fewer than `limit` records and fails otherwise.
AddObeysCapacity(p, map, mapAfter, limit) ==
    IF MapSize(map) < limit
    THEN /\ result'[p].code = "OK"
         /\ MapSize(mapAfter) = MapSize(map) + 1
         /\ MapHas(mapAfter, result'[p].response.id)
    ELSE /\ result'[p].code = "UPLOAD_FAILED"
         /\ mapAfter = map

\* C8: in each of the image store, the primary partition and the isolated
\* partition an add succeeds exactly when the partition currently holds fewer
\* than 100 records; no partition ever holds more than 100; a successful
\* cancel removes one record, so an add after it succeeds again.
C8_CapacityIsLiveCount ==
    [][/\ \A p \in Requests :
            /\ FileAddAttempt(p) =>
                 AddObeysCapacity(p, fileRecords, fileRecords', FILE_MAX_RECORDS)
            /\ PdfAddAttempt(p, "limpo") =>
                 AddObeysCapacity(p, records, records', PDF_MAX_RECORDS)
            /\ PdfAddAttempt(p, "erro_scan") =>
                 AddObeysCapacity(p, isolatedRecords, isolatedRecords', PDF_MAX_RECORDS)
       /\ MapSize(fileRecords') <= FILE_MAX_RECORDS
       /\ MapSize(records') <= PDF_MAX_RECORDS
       /\ MapSize(isolatedRecords') <= PDF_MAX_RECORDS
       /\ (last'.op = "pdfUploadCancel" /\ last'.code = "OK") =>
             /\ MapSize(records') + MapSize(isolatedRecords')
                    = MapSize(records) + MapSize(isolatedRecords) - 1
             /\ ~MapHas(records', last'.id) /\ ~MapHas(isolatedRecords', last'.id)
       /\ (last'.op = "fileUploadCancel" /\ last'.code = "OK") =>
             /\ MapSize(fileRecords') = MapSize(fileRecords) - 1
             /\ ~MapHas(fileRecords', last'.id)]_vars

\* An add failed at the full primary partition, and after a delete a later
\* add filled it again.
C8_Witness ==
    \E p, q \in Requests :
        /\ p < q
        /\ result[p].code = "UPLOAD_FAILED" /\ scanResult[p] = "limpo"
        /\ result[q].code = "OK" /\ scanResult[q] = "limpo"
        /\ MapHas(records, uploadId[q])
        /\ MapSize(records) = PDF_MAX_RECORDS

\* The conversion of a stored image passes its integrity check.
IntegrityValid(id) ==
    LET entity == fileRecordsGet(id)
    IN  validateConversionIntegrity(
            convertToBase64Length(entity.buffer, MimePrefixLength),
            calculateExpectedBase64Size(entity.fileSize, MimePrefixLength))

\* C9: for every stored image the converted length is within 1% of the
\* expected length, and no conversion ends with INTEGRITY_ERROR.
C9_IntegrityCheckNeverFails ==
    /\ \A id \in MapKeys(fileRecords) : IntegrityValid(id)
    /\ last.op = "pngConversionProcess" => last.code # "INTEGRITY_ERROR"

MetadataFields == {"width", "height", "bitDepth", "colorType", "hasTransparency"}

\* C11: the response a successful conversion delivers carries, in its
\* metadata, the width, height, bitDepth, colorType and hasTransparency
\* recomputed from the stored bytes: the cleanup removes none of them.
C11_ResponseKeepsMetadata ==
    (last.op = "pngConversionProcess" /\ last.code = "OK") =>
        /\ MetadataFields \subseteq DOMAIN last.response.metadata
        /\ \A key \in MetadataFields :
              last.response.metadata[key]
                  = extractPNGMetadata(fileRecordsGet(last.id).buffer)[key]

\* The step in which the stream of image upload p ends gracefully while the
\* upload is still awaiting its body.
FileEnds(p) ==
    /\ kind[p] = "png" /\ pc[p] = "ingesting"
    /\ stream[p] = "open" /\ stream'[p] = "ended"

\* C12: an image upload whose buffer has the PNG signature but fewer than 26
\* bytes (too short for the header reads at offsets 16..25) is rejected with
\* CORRUPTED_FILE and stores no record.
C12_TruncatedHeaderRejected ==
    [][\A p \in Requests :
          (/\ FileEnds(p)
           /\ isPNGFile(chunks[p].buffer)
           /\ chunks[p].buffer.length < 26) =>
              /\ result'[p].code = "CORRUPTED_FILE"
              /\ fileRecords' = fileRecords]_vars

\* The buffer has at least Len(magic) bytes and its first Len(magic) bytes are
\* those of `magic`, byte by byte.
HasMagic(buffer, magic) ==
    /\ buffer.length >= Len(magic)
    /\ \A i \in 1..Len(magic) : i <= Len(buffer.head) /\ buffer.head[i] = magic[i]

\* The step in which the stream of document upload p ends gracefully while
\* the upload is still awaiting its body.
PdfEnds(p) ==
    /\ kind[p] = "pdf" /\ pc[p] = "ingesting"
    /\ stream[p] = "open" /\ stream'[p] = "ended"

\* C13: isPNGFile / isPDFFile accept a buffer exactly when it has at least N
\* bytes and its first N bytes are the magic sequence (N = 8 / N = 5), and an
\* upload that reaches the signature check fails with INVALID_FILE_TYPE
\* exactly when the check rejects its buffer.
C13_SignatureAcceptedIffMagic ==
    [][\A p \in Requests :
          /\ isPNGFile(chunks'[p].buffer) <=> HasMagic(chunks'[p].buffer, PNG_SIGNATURE)
          /\ isPDFFile(chunks'[p].buffer) <=> HasMagic(chunks'[p].buffer, PDF_SIGNATURE)
          /\ (FileEnds(p) /\ chunks[p].count > 0
                /\ chunks[p].buffer.length <= FILE_MAX_FILE_SIZE) =>
                (result'[p].code = "INVALID_FILE_TYPE"
                    <=> ~HasMagic(chunks[p].buffer, PNG_SIGNATURE))
          /\ (PdfEnds(p) /\ chunks[p].count > 0
                /\ chunks[p].buffer.length <= PDF_MAX_FILE_SIZE) =>
                (result'[p].code = "INVALID_FILE_TYPE"
                    <=> ~HasMagic(chunks[p].buffer, PDF_SIGNATURE))]_vars

\* A document upload was rejected for its type and an image upload of a
\* well-formed 67-byte PNG was accepted.
C13_Witness ==
    \E p, q \in Requests :
        /\ kind[p] = "pdf" /\ result[p].code = "INVALID_FILE_TYPE"
        /\ kind[q] = "png" /\ result[q].code = "OK"
        /\ result[q].response.fileSize = 67

\* The structural markers in the order validatePDFStructure checks them, and
\* the corruption kind reported when each is the first one missing.
StructureMarkers == <<"xref", "trailer", "startxref", "%%EOF", "obj">>

StructureKinds ==
    <<"xref_corrompida", "trailer_ausente", "estrutura_invalida",
      "estrutura_invalida", "objeto_corrompido">>

\* The corruption kind of the first marker, in that order, the file lacks.
FirstMissingKind(buffer) ==
    LET missing == {i \in 1..Len(StructureMarkers) :
                        StructureMarkers[i] \notin buffer.tokens}
    IN  IF missing = {} THEN "null"
        ELSE StructureKinds[CHOOSE i \in missing : \A j \in missing : i <= j]

\* C14: for a buffer with a PDF header, validatePDFStructure reports the kind
\* of the first missing marker in the order xref, trailer, startxref, %%EOF,
\* object; a buffer missing both xref and trailer reports xref_corrompida,
\* never trailer_ausente; the result is valid only when nothing is missing.
C14_FirstFailingCheckReported ==
    \A p \in Requests :
        (kind[p] = "pdf" /\ isPDFFile(chunks[p].buffer)) =>
            LET outcome == validatePDFStructure(chunks[p].buffer)
            IN  /\ outcome.corruption = FirstMissingKind(chunks[p].buffer)
                /\ outcome.valid <=> (FirstMissingKind(chunks[p].buffer) = "null")

\* C15: an upload whose stream ends gracefully after zero bytes in total fails
\* with VALIDATION_ERROR, however many data events were delivered (empty
\* chunks included); for a document the gate is clear afterwards.
C15_EmptyUploadIsValidationError ==
    [][\A p \in Requests :
          /\ (FileEnds(p) /\ totalSize[p] = 0) =>
                result'[p].code = "VALIDATION_ERROR"
          /\ (PdfEnds(p) /\ totalSize[p] = 0) =>
                /\ result'[p].code = "VALIDATION_ERROR"
                /\ uploadInProgress' = NullId]_vars

\* The size ceiling of request p's format.
Ceiling(p) == IF kind[p] = "pdf" THEN PDF_MAX_FILE_SIZE ELSE FILE_MAX_FILE_SIZE

\* The step is a 'data' event of upload p that carries bytes.
DataArrives(p) == stream[p] = "open" /\ totalSize'[p] > totalSize[p]

\* The step is an event of upload p's request stream.
StreamEvent(p) == stream[p] = "open" /\ (DataArrives(p) \/ stream'[p] # "open")

\* C16: the data event that takes the running total above the ceiling fails
\* the upload with FILE_TOO_LARGE at once, with no record created and, for a
\* document, the gate cleared; a data event that leaves the total at or below
\* the ceiling fails nothing, and a stream that ends with exactly the ceiling
\* is not rejected for its size; no later stream event of that upload changes
\* its outcome, the stores or the gate.
C16_TooLargeFailsAtOnce ==
    [][\A p \in Requests :
          /\ (pc[p] = "ingesting" /\ DataArrives(p) /\ totalSize'[p] > Ceiling(p)) =>
                /\ result'[p].code = "FILE_TOO_LARGE"
                /\ stream'[p] = "open"
                /\ fileRecords' = fileRecords
                /\ records' = records /\ isolatedRecords' = isolatedRecords
                /\ kind[p] = "pdf" => uploadInProgress' = NullId
          /\ (pc[p] = "ingesting" /\ DataArrives(p) /\ totalSize'[p] <= Ceiling(p)) =>
                result'[p].code = "NONE"
          /\ ((FileEnds(p) \/ PdfEnds(p)) /\ totalSize[p] = Ceiling(p)) =>
                result'[p].code # "FILE_TOO_LARGE"
          /\ result[p].code = "FILE_TOO_LARGE" =>
                /\ result'[p] = result[p]
                /\ StreamEvent(p) =>
                      /\ uploadInProgress' = uploadInProgress
                      /\ fileRecords' = fileRecords
                      /\ records' = records /\ isolatedRecords' = isolatedRecords]_vars

\* A document upload failed for its size and its stream ended afterwards, and
\* a document of exactly the ceiling was then accepted.
C16_Witness ==
    \E p, q \in Requests :
        /\ kind[p] = "pdf" /\ result[p].code = "FILE_TOO_LARGE" /\ stream[p] = "ended"
        /\ result[q].code = "OK" /\ result[q].response.fileSize = PDF_MAX_FILE_SIZE

\* The error of the earliest failing stage of a document upload whose stream
\* ended gracefully with `cs` buffered, or "NONE" when it passes on to the scan:
\* ingestion (nothing buffered, size), then signature, then structure.
PdfStageError(cs) ==
    IF cs.count = 0 THEN "VALIDATION_ERROR"
    ELSE IF cs.buffer.length > PDF_MAX_FILE_SIZE THEN "FILE_TOO_LARGE"
    ELSE IF ~HasMagic(cs.buffer, PDF_SIGNATURE) THEN "INVALID_FILE_TYPE"
    ELSE IF \E marker \in PdfTokens : ~includes(cs.buffer, marker) THEN "CORRUPTED_FILE"
    ELSE "NONE"

\* Likewise for an image upload, whose last stage is the store: ingestion,
\* signature, header, store.
FileStageError(cs) ==
    IF cs.count = 0 THEN "VALIDATION_ERROR"
    ELSE IF cs.buffer.length > FILE_MAX_FILE_SIZE THEN "FILE_TOO_LARGE"
    ELSE IF ~HasMagic(cs.buffer, PNG_SIGNATURE) THEN "INVALID_FILE_TYPE"
    ELSE IF cs.buffer.length < 24 THEN "CORRUPTED_FILE"
    ELSE IF MapSize(fileRecords) >= FILE_MAX_RECORDS THEN "UPLOAD_FAILED"
    ELSE "OK"

\* The error of the earliest failing stage once the scan has settled: scan,
\* then store.
ScanStageError(scan) ==
    IF scan = "infectado" THEN "MALWARE_DETECTED"
    ELSE IF TargetFull(scan) THEN "UPLOAD_FAILED"
    ELSE "OK"

\* C17: an upload ends with the error of the earliest failing stage in the
\* order ingestion, signature, structure, scan, store (an oversized file that
\* is not a PDF fails with FILE_TOO_LARGE; an infected file fails with
\* MALWARE_DETECTED even when the store is full), and no later stage runs after
\* a failure: a document that fails before the scan is never scanned, and a
\* failed upload's outcome, scan result and timers never change again.
C17_EarliestStageErrorWins ==
    [][\A p \in Requests :
          /\ (pc[p] = "ingesting" /\ DataArrives(p) /\ totalSize'[p] > Ceiling(p)) =>
                result'[p].code = "FILE_TOO_LARGE"
          /\ (pc[p] = "ingesting" /\ stream[p] = "open" /\ stream'[p] = "errored") =>
                result'[p].code = "UPLOAD_FAILED"
          /\ FileEnds(p) => result'[p].code = FileStageError(chunks[p])
          /\ PdfEnds(p) =>
                /\ result'[p].code = PdfStageError(chunks[p])
                /\ (PdfStageError(chunks[p]) # "NONE") <=> (timers'[p] = {})
          /\ ScanSettles(p) => result'[p].code = ScanStageError(scanResult'[p])
          /\ (kind[p] = "pdf" /\ pc[p] = "ingesting" /\ pc'[p] = "done") =>
                (scanResult'[p] = scanResult[p] /\ timers'[p] = {})
          /\ Failed(p) =>
                /\ result'[p] = result[p]
                /\ pc'[p] = pc[p]
                /\ scanResult'[p] = scanResult[p]
                /\ timers'[p] = timers[p]]_vars

\* An oversized file that is not a PDF failed for its size, and an infected
\* document failed for the malware while its target partition was full.
C17_Witness ==
    \E p, q \in Requests :
        /\ kind[p] = "pdf" /\ result[p].code = "FILE_TOO_LARGE"
        /\ result[q].code = "MALWARE_DETECTED"
        /\ MapSize(records) >= PDF_MAX_RECORDS

\* The operations that take an identifier.
CallOps ==
    {"pdfUploadGet", "pdfUploadCancel", "fileUploadGet", "fileUploadCancel",
     "pngConversionProcess"}

\* The store the operation looks `id` up in holds it.
Present(op, id) ==
    IF op \in {"pdfUploadGet", "pdfUploadCancel"}
    THEN id \in MapKeys(records) \cup MapKeys(isolatedRecords)
    ELSE id \in MapKeys(fileRecords)

\* C18: get, cancel (both formats) and convert called with a malformed
\* identifier fail with VALIDATION_ERROR and change neither a store nor the
\* gate; a well-formed identifier never yields VALIDATION_ERROR, and NOT_FOUND
\* is returned exactly for well-formed identifiers that are absent.
C18_MalformedIdIsValidationError ==
    [][last'.op \in CallOps =>
          /\ (last'.id = MalformedId) =>
                /\ last'.code = "VALIDATION_ERROR"
                /\ storeVars' = storeVars
          /\ (last'.id # MalformedId) =>
                /\ last'.code # "VALIDATION_ERROR"
                /\ (last'.code = "NOT_FOUND") <=> ~Present(last'.op, last'.id)]_vars

\* A cancel with a malformed identifier was refused while the store held a
\* record and an upload held the gate.
C18_Witness ==
    /\ last.op = "pdfUploadCancel" /\ last.id = MalformedId
    /\ last.code = "VALIDATION_ERROR"
    /\ DOMAIN records.map # {}
    /\ uploadInProgress # NullId

\* Partition `after` is partition `before` without the key `id`: every other
\* key is still there with the record it had.
RemovedOnly(before, after, id) ==
    /\ MapKeys(after) = MapKeys(before) \ {id}
    /\ \A key \in DOMAIN after.map : after.map[key] = before.map[key]

\* C19: a document cancel with a well-formed id succeeds exactly when the id
\* is in the primary or the isolated partition; after it succeeds the id is in
\* neither, every other record is as it was, and get and convert for that id
\* answer NOT_FOUND; when the id is in neither partition the cancel fails with
\* NOT_FOUND and both partitions are unchanged.
C19_CancelRemovesExactlyTheRecord ==
    [][(last'.op = "pdfUploadCancel" /\ last'.id # MalformedId) =>
          /\ (last'.code = "OK") <=> Present("pdfUploadCancel", last'.id)
          /\ (last'.code = "NOT_FOUND") <=> ~Present("pdfUploadCancel", last'.id)
          /\ (last'.code = "OK") =>
                /\ RemovedOnly(records, records', last'.id)
                /\ RemovedOnly(isolatedRecords, isolatedRecords', last'.id)
                /\ (pdfUploadGetCode(last.id) = "NOT_FOUND")'
                /\ (pngConversionCode(last.id) = "NOT_FOUND")'
          /\ (last'.code = "NOT_FOUND") =>
                /\ records' = records
                /\ isolatedRecords' = isolatedRecords]_vars

\* A quarantined document was cancelled while a primary one stayed, and the
\* get that followed for the cancelled id answered NOT_FOUND.
C19_Witness ==
    \E p, q \in Requests :
        /\ result[p].code = "OK" /\ scanResult[p] = "erro_scan"
        /\ last.op = "pdfUploadGet" /\ last.id = uploadId[p] /\ last.code = "NOT_FOUND"
        /\ MapHas(records, uploadId[q])

ReadOps == {"pdfUploadGet", "fileUploadGet", "pngConversionProcess"}

\* C20: a get of either format and a convert, succeeding or failing, leave
\* the three partitions, every stored record with its bytes, and the in-flight
\* gate as they were; a document get answers with the record of the primary
\* partition when the id is there and otherwise with the record of the
\* isolated partition, so a quarantined record is retrievable by id.
C20_ReadsChangeNothing ==
    [][last'.op \in ReadOps =>
          /\ storeVars' = storeVars
          /\ (last'.op = "pdfUploadGet" /\ MapHas(records, last'.id)) =>
                /\ last'.code = "OK"
                /\ last'.response = PDFUploadResponse(recordsGet(last'.id))
          /\ (/\ last'.op = "pdfUploadGet"
              /\ ~MapHas(records, last'.id)
              /\ MapHas(isolatedRecords, last'.id)) =>
                /\ last'.code = "OK"
                /\ last'.response = PDFUploadResponse(isolatedRecordsGet(last'.id))]_vars

\* A quarantined document was fetched by id while another upload held the gate.
C20_Witness ==
    /\ last.op = "pdfUploadGet" /\ last.code = "OK"
    /\ last.response.scanResult = "erro_scan"
    /\ MapHas(isolatedRecords, last.id)
    /\ uploadInProgress # NullId

\* Every record of partition `after` has its raw bytes, as many as its
\* fileSize says, and the bytes it had in partition `before`.
KeepsBytes(before, after) ==
    \A id \in DOMAIN after.map :
        /\ "buffer" \in DOMAIN after.map[id]
        /\ after.map[id].buffer.length = after.map[id].fileSize
        /\ id \in DOMAIN before.map => after.map[id].buffer = before.map[id].buffer

\* C21: no response of an upload or a get, of either format, has the buffer
\* field, while every stored record has its raw bytes and keeps them from one
\* step to the next for as long as it is in the store.
C21_ResponsesOmitRawBytes ==
    [][/\ \A p \in Requests :
            result'[p].code = "OK" => "buffer" \notin DOMAIN result'[p].response
       /\ (last'.op \in {"pdfUploadGet", "fileUploadGet"} /\ last'.code = "OK") =>
            "buffer" \notin DOMAIN last'.response
       /\ KeepsBytes(fileRecords, fileRecords')
       /\ KeepsBytes(records, records')
       /\ KeepsBytes(isolatedRecords, isolatedRecords')]_vars

\* A stored document was fetched by id: the response came back and the record
\* is still in the primary partition with its 67 bytes.
C21_Witness ==
    /\ last.op = "pdfUploadGet" /\ last.code = "OK"
    /\ last.id \in DOMAIN records.map
    /\ records.map[last.id].buffer = StoredPdf
    /\ \E p \in Requests : result[p].code = "OK" /\ result[p].response.id = last.id

\* The id request p's successful upload returned.
ReturnedId(p) == result[p].response.id

\* Request p's upload has returned a response.
Returned(p) == result[p].code = "OK"

\* The store of request p's format has a record under `id`.
Stored(p, id) == IF kind[p] = "pdf" THEN pdfExists(id) ELSE MapHas(fileRecords, id)

\* Every record is filed under its own id, and no id is in both partitions of
\* the document store.
KeyedById ==
    /\ \A id \in DOMAIN fileRecords.map : fileRecords.map[id].id = id
    /\ \A id \in DOMAIN records.map : records.map[id].id = id
    /\ \A id \in DOMAIN isolatedRecords.map : isolatedRecords.map[id].id = id
    /\ DOMAIN records.map \cap DOMAIN isolatedRecords.map = {}

\* C22: the id a successful upload returns is the key of the stored record.
\* The record is there when the upload returns and stays until a cancel of
\* that id succeeds; a get of the id answers with the field values of the
\* upload response (for documents integrityValid = true, the scan result and
\* the token among them); records are filed under their own, distinct ids.
C22_ReturnedIdIsTheKey ==
    [][/\ KeyedById'
       /\ \A p, q \in Requests :
            (Returned(p)' /\ Returned(q)' /\ p # q) => ReturnedId(p)' # ReturnedId(q)'
       /\ \A p \in Requests :
            (Returned(p)' /\ ~Returned(p)) => Stored(p, ReturnedId(p))'
       /\ \A p \in Requests :
            (Returned(p) /\ Stored(p, ReturnedId(p)) /\ ~Stored(p, ReturnedId(p))') =>
                /\ last'.op \in {"pdfUploadCancel", "fileUploadCancel"}
                /\ last'.id = ReturnedId(p)
                /\ last'.code = "OK"
       /\ \A p \in Requests :
            (/\ Returned(p)
             /\ last'.op \in {"pdfUploadGet", "fileUploadGet"}
             /\ last'.id = ReturnedId(p)
             /\ Stored(p, ReturnedId(p))) =>
                /\ last'.code = "OK"
                /\ last'.response = result[p].response
                /\ kind[p] = "pdf" =>
                      /\ last'.response.integrityValid = TRUE
                      /\ last'.response.scanResult = scanResult[p]
                      /\ last'.response.token = generateAccessToken(ReturnedId(p))]_vars

\* Two documents were stored, one of them quarantined, and a get of the
\* quarantined one answered with what its upload had returned.
C22_Witness ==
    \E p, q \in Requests :
        /\ p # q /\ Returned(p) /\ Returned(q)
        /\ scanResult[p] = "erro_scan"
        /\ last.op = "pdfUploadGet" /\ last.id = ReturnedId(p) /\ last.code = "OK"
        /\ last.response = result[p].response

\* What the program holds of request p.
RequestState(p) ==
    <<kind[p], pc[p], stream[p], totalSize[p], chunks[p], result[p]>>

\* The step is one of image upload p: its begin or one of its stream events.
ImageStep(p) == kind'[p] = "png" /\ RequestState(p)' # RequestState(p)

\* C23: an image upload never ends with UPLOAD_IN_PROGRESS; it starts
\* ingesting whatever the document gate holds and whatever other uploads are
\* in flight, none of its steps changes the gate or a document partition, and
\* when it succeeds its record has an id no other upload of the run has and
\* the bytes its own stream delivered.
C23_ImageUploadsAreNotGated ==
    [][\A p \in Requests :
          /\ kind'[p] = "png" => result'[p].code # "UPLOAD_IN_PROGRESS"
          /\ (kind[p] = "none" /\ kind'[p] = "png") =>
                pc'[p] = "ingesting" /\ stream'[p] = "open"
          /\ ImageStep(p) =>
                /\ uploadInProgress' = uploadInProgress
                /\ records' = records
                /\ isolatedRecords' = isolatedRecords
          /\ (kind[p] = "png" /\ ~Returned(p) /\ Returned(p)') =>
                /\ \A q \in Requests \ {p} :
                      /\ Returned(q) => ReturnedId(q) # ReturnedId(p)'
                      /\ uploadId[q] # ReturnedId(p)'
                /\ fileRecords'.map[ReturnedId(p)'].buffer = chunks[p].buffer
                /\ \A id \in DOMAIN fileRecords.map :
                      fileRecords'.map[id] = fileRecords.map[id]]_vars

\* An image upload that began while a document upload held the gate has been
\* stored, and the document upload still holds the gate.
C23_Witness ==
    \E p, q \in Requests :
        /\ p < q
        /\ InFlight(p) /\ uploadInProgress = uploadId[p]
        /\ kind[q] = "png" /\ Returned(q)
        /\ MapHas(fileRecords, ReturnedId(q))

\* The timers of request p's scan that fire in this step.
Fired(p) == timers[p] \ timers'[p]

\* C24: the scan of a document upload resolves once, with the result of the
\* timer that fires first (a verdict of the scan for the scan-completion
\* timer, erro_scan for the timeout timer); when the other timer fires later
\* it changes neither the scan result, nor the outcome of any upload, nor a
\* partition, nor the gate.
C24_FirstTimerDecidesTheScan ==
    [][\A p \in Requests :
          /\ (ScanSettles(p) /\ Fired(p) = {"scan"}) => scanResult'[p] \in ScanVerdicts
          /\ (ScanSettles(p) /\ Fired(p) = {"timeout"}) => scanResult'[p] = "erro_scan"
          /\ scanResult[p] # "none" => scanResult'[p] = scanResult[p]
          /\ scanResult'[p] # scanResult[p] => ScanSettles(p)
          /\ (Fired(p) # {} /\ ~ScanSettles(p)) =>
                /\ result' = result
                /\ pc' = pc
                /\ storeVars' = storeVars]_vars

\* A clean document is in the primary partition, both timers of its scan have
\* fired, and the next upload holds the gate.
C24_Witness ==
    \E p, q \in Requests :
        /\ Returned(p) /\ scanResult[p] = "limpo" /\ timers[p] = {}
        /\ MapHas(records, ReturnedId(p))
        /\ InFlight(q) /\ uploadInProgress = uploadId[q]

\* C25 as stated: a document upload that is in the scan stage eventually ends
\* stored, quarantined or with MALWARE_DETECTED.
C25_ScanStageEnds ==
    \A p \in Requests :
        (pc[p] = "scanning") ~>
            (pc[p] = "done" /\ result[p].code \in {"OK", "MALWARE_DETECTED"})

\* C25: a document upload that is in the scan stage eventually leaves it,
\* at the latest when the timeout timer fires, and ends stored, quarantined,
\* with MALWARE_DETECTED or, only when the partition its scan result routes
\* to is at capacity, with UPLOAD_FAILED; when invoking the scan throws, the
\* scan result is erro_scan and the upload is routed as any erro_scan upload.
C25_ScanStageEndsOrStoreFull ==
    /\ \A p \in Requests : (pc[p] = "scanning") ~> (pc[p] = "done")
    /\ [][\A p \in Requests :
            ScanSettles(p) =>
                /\ result'[p].code \in {"OK", "MALWARE_DETECTED", "UPLOAD_FAILED"}
                /\ result'[p].code = "UPLOAD_FAILED" <=> TargetFull(scanResult'[p])
                /\ result'[p].code = "MALWARE_DETECTED" <=> scanResult'[p] = "infectado"
                /\ Fired(p) = {"scan", "timeout"} =>
                      /\ scanResult'[p] = "erro_scan"
                      /\ result'[p].code # "MALWARE_DETECTED"
                      /\ result'[p].code = "OK" =>
                            MapHas(isolatedRecords', uploadId[p])]_vars

\* An upload whose scan threw was accepted into quarantine, and another was
\* let out of the scan stage by the timeout timer.
C25_Witness ==
    \E p, q \in Requests :
        /\ Returned(p) /\ scanResult[p] = "erro_scan" /\ timers[p] = {}
        /\ MapHas(isolatedRecords, uploadId[p])
        /\ pc[q] = "done" /\ scanResult[q] = "erro_scan" /\ timers[q] = {"scan"}

\* Partition `after` is partition `before` with one more record, under `id`.
AddedOnly(before, after, id) ==
    /\ MapKeys(after) = MapKeys(before) \cup {id}
    /\ MapSize(after) = MapSize(before) + 1
    /\ \A key \in DOMAIN before.map : after.map[key] = before.map[key]

\* C26: in every reachable state the image store, the primary partition and
\* the isolated partition hold at most 100 records each, whatever the
\* interleaving of uploads and cancels; the step in which an upload returns
\* adds exactly its own record to its partition and loses none.
C26_PartitionsWithinCapacity ==
    /\ [](/\ MapSize(fileRecords) <= FILE_MAX_RECORDS
          /\ MapSize(records) <= PDF_MAX_RECORDS
          /\ MapSize(isolatedRecords) <= PDF_MAX_RECORDS)
    /\ [][\A p \in Requests :
            (Returned(p)' /\ ~Returned(p)) =>
                IF kind[p] = "png"
                THEN AddedOnly(fileRecords, fileRecords', ReturnedId(p)')
                ELSE IF scanResult'[p] = "erro_scan"
                THEN AddedOnly(isolatedRecords, isolatedRecords', ReturnedId(p)')
                ELSE AddedOnly(records, records', ReturnedId(p)')]_vars

\* Two image uploads were in flight at a full store with one place freed by a
\* cancel: one was stored, the other failed, and the store is full again.
C26_Witness ==
    \E p, q \in Requests :
        /\ kind[p] = "png" /\ kind[q] = "png"
        /\ Returned(p) /\ MapHas(fileRecords, ReturnedId(p))
        /\ result[q].code = "UPLOAD_FAILED"
        /\ chunks[q] = NoChunks /\ stream[q] = "ended"
        /\ MapSize(fileRecords) = FILE_MAX_RECORDS

\* The step is the accepted begin of document upload p: it reserves an id and
\* sets the gate to it.
Acquires(p) ==
    /\ kind[p] = "none" /\ kind'[p] = "pdf" /\ pc'[p] = "ingesting"
    /\ uploadInProgress = NullId
    /\ uploadId'[p] # NullId
    /\ uploadInProgress' = uploadId'[p]

\* The step takes the document upload that holds the gate to its terminal
\* outcome and clears the gate.
Releases(p) ==
    /\ InFlight(p) /\ pc'[p] = "done"
    /\ uploadInProgress = uploadId[p]
    /\ uploadInProgress' = NullId

\* C27: the gate is non-null exactly while a document upload has reserved its
\* id and not reached its terminal outcome, and it then holds that id, under
\* which the record is stored when the upload succeeds; the gate changes only
\* when a document upload acquires it or the upload holding it ends: no get,
\* cancel, convert, image upload step or rejected upload changes it.
C27_GateFollowsTheUploadInFlight ==
    /\ []((uploadInProgress # NullId) <=> (\E p \in Requests : InFlight(p)))
    /\ [](\A p \in Requests : InFlight(p) => uploadInProgress = uploadId[p])
    /\ [][/\ uploadInProgress' # uploadInProgress =>
                \E p \in Requests : Acquires(p) \/ Releases(p)
          /\ last'.op \in CallOps => uploadInProgress' = uploadInProgress
          /\ \A p \in Requests :
                /\ ImageStep(p) => uploadInProgress' = uploadInProgress
                /\ (result'[p].code = "UPLOAD_IN_PROGRESS" /\ ~Failed(p)) =>
                      (uploadInProgress' = uploadInProgress /\ uploadInProgress # NullId)
                /\ (kind[p] = "pdf" /\ Returned(p)' /\ ~Returned(p)) =>
                      /\ ReturnedId(p)' = uploadInProgress
                      /\ pdfExists(ReturnedId(p))']_vars

\* While a document is being scanned and holds the gate, a second upload was
\* turned away and a cancel was tried on the id the gate holds.
C27_Witness ==
    \E p, q \in Requests :
        /\ pc[p] = "scanning" /\ uploadInProgress = uploadId[p]
        /\ result[q].code = "UPLOAD_IN_PROGRESS"
        /\ last.op = "pdfUploadCancel" /\ last.id = uploadId[p]
        /\ last.code = "NOT_FOUND"

\* A document record as the pipeline may store it.
StorableRecord(record) ==
    /\ record.integrityValid = TRUE
    /\ record.corruptionType = "null"
    /\ record.status = "concluido"
    /\ record.scanResult \in {"limpo", "erro_scan"}

\* C28: every record of the primary and of the isolated partition has
\* integrityValid = true, corruptionType = null, status concluido and a
\* scanResult of limpo or erro_scan; none has infectado or nao_verificado.
C28_StoredRecordsAreCompleted ==
    /\ \A id \in MapKeys(records) : StorableRecord(recordsGet(id))
    /\ \A id \in MapKeys(isolatedRecords) : StorableRecord(isolatedRecordsGet(id))

\* A clean document is stored as completed, and an infected one was rejected
\* and is in neither partition.
C28_Witness ==
    \E p, q \in Requests :
        /\ Returned(p) /\ scanResult[p] = "limpo"
        /\ MapHas(records, uploadId[p])
        /\ recordsGet(uploadId[p]).status = "concluido"
        /\ scanResult[q] = "infectado" /\ pc[q] = "done"
        /\ ~pdfExists(uploadId[q])

\* The buffered body of image upload p passes every check before the store.
ValidImage(cs) ==
    /\ cs.count > 0
    /\ cs.buffer.length <= FILE_MAX_FILE_SIZE
    /\ HasMagic(cs.buffer, PNG_SIGNATURE)
    /\ cs.buffer.length >= 24

\* C29: a valid upload whose target partition holds 100 records fails with
\* UPLOAD_FAILED in its last step, leaving every partition as it was and, for
\* a document, the gate cleared; nothing fails for capacity earlier (an upload
\* begins and ingests at a full store, and UPLOAD_FAILED arises only at the
\* stream's error event or in the step that would store); an erro_scan upload
\* is accepted into an isolated partition that has room even when the primary
\* partition is full.
C29_FullPartitionFailsAtTheEnd ==
    [][\A p \in Requests :
          /\ (ScanSettles(p) /\ scanResult'[p] # "infectado"
                             /\ TargetFull(scanResult'[p])) =>
                /\ result'[p].code = "UPLOAD_FAILED"
                /\ records' = records /\ isolatedRecords' = isolatedRecords
                /\ fileRecords' = fileRecords
                /\ uploadInProgress' = NullId
          /\ (FileEnds(p) /\ ValidImage(chunks[p])
                          /\ MapSize(fileRecords) >= FILE_MAX_RECORDS) =>
                /\ result'[p].code = "UPLOAD_FAILED"
                /\ fileRecords' = fileRecords
                /\ records' = records /\ isolatedRecords' = isolatedRecords
          /\ (kind[p] = "none" /\ kind'[p] # "none" /\ uploadInProgress = NullId) =>
                pc'[p] = "ingesting"
          /\ (result'[p].code = "UPLOAD_FAILED" /\ ~Failed(p)) =>
                \/ ScanSettles(p)
                \/ FileEnds(p)
                \/ stream[p] = "open" /\ stream'[p] = "errored"
          /\ (ScanSettles(p) /\ scanResult'[p] = "erro_scan"
                             /\ MapSize(isolatedRecords) < PDF_MAX_RECORDS) =>
                /\ result'[p].code = "OK"
                /\ MapHas(isolatedRecords', uploadId[p])]_vars

\* With the primary partition full, a clean upload failed with UPLOAD_FAILED
\* and an erro_scan upload was accepted into the place a cancel had freed in
\* the isolated partition.
C29_Witness ==
    \E p, q \in Requests :
        /\ result[p].code = "UPLOAD_FAILED" /\ scanResult[p] = "limpo"
        /\ Returned(q) /\ scanResult[q] = "erro_scan"
        /\ MapHas(isolatedRecords, uploadId[q])
        /\ MapSize(records) = PDF_MAX_RECORDS
        /\ uploadInProgress = NullId

\* The corruptionType the CORRUPTED_FILE error of a document upload carries:
\* structureValidation.corruption.type.
CorruptionType(buffer) == validatePDFStructure(buffer).corruption

\* C30: a document upload that fails with CORRUPTED_FILE has a buffer that
\* starts with %PDF-, and its error never carries cabecalho_invalido; a
\* buffer within the size limit that does not start with %PDF- fails with
\* INVALID_FILE_TYPE.
C30_BadHeaderIsInvalidFileType ==
    [][\A p \in Requests :
          /\ (PdfEnds(p) /\ result'[p].code = "CORRUPTED_FILE") =>
                /\ HasMagic(chunks[p].buffer, PDF_SIGNATURE)
                /\ CorruptionType(chunks[p].buffer) # "cabecalho_invalido"
                /\ \E i \in DOMAIN StructureKinds :
                      CorruptionType(chunks[p].buffer) = StructureKinds[i]
          /\ (PdfEnds(p) /\ chunks[p].count > 0
                         /\ chunks[p].buffer.length <= PDF_MAX_FILE_SIZE
                         /\ ~HasMagic(chunks[p].buffer, PDF_SIGNATURE)) =>
                result'[p].code = "INVALID_FILE_TYPE"]_vars

\* One document failed with CORRUPTED_FILE and another, whose body did not
\* start with %PDF-, with INVALID_FILE_TYPE.
C30_Witness ==
    \E p, q \in Requests :
        /\ kind[p] = "pdf" /\ result[p].code = "CORRUPTED_FILE"
        /\ kind[q] = "pdf" /\ result[q].code = "INVALID_FILE_TYPE"
        /\ totalSize[q] = 0 /\ stream[q] = "ended"

====
